---- MODULE Spec2Model ----
(***************************************************************************)
(* GraphCorpusGenerator (src/GENERATE_CORPUS.py) as a state machine.       *)
(*                                                                         *)
(* Python values are modelled as follows.                                  *)
(*   str   a sequence of pieces; a piece is a literal fragment of an       *)
(*         f-string, an atomic field value, or (where the code inspects    *)
(*         characters: split, replace, strip) a single character.          *)
(*         Concatenation is \o, "" is << >>, a line break is the piece     *)
(*         "\n" on its own.                                                *)
(*   dict  a function from keys to values; a missing key is a key outside  *)
(*         DOMAIN.  A dict the code iterates with .items() is a sequence   *)
(*         of <<key, value>> pairs, in document order.                     *)
(*   list  a sequence.                                                     *)
(*   None  NoneVal, a text of one reserved piece that no str holds.        *)
(***************************************************************************)
EXTENDS Integers, Sequences, FiniteSets, TLC

VARIABLES
    metadata,       \* self.metadata
    taxonomy,       \* self.taxonomy
    views_only,     \* self.views_only
    corpus_parts,   \* self.corpus_parts
    seen_entities,  \* self.seen_entities
    call,           \* the last method called, with its arguments
    ret,            \* what that call returned
    raised,         \* the exception that call raised, or "none"
    other,          \* a second generator given the same calls, where there is one
    repeated,       \* whether that call repeats the call before it, same method
                    \* and arguments, which returned a non-empty text
    classified,     \* the three partitions generate_full_corpus computed
    stats,          \* the statistics last computed
    fs              \* the file system: training_data/ and the two artifacts

vars == <<metadata, taxonomy, views_only, corpus_parts, seen_entities,
          call, ret, raised, repeated, classified, stats, fs, other>>

----------------------------------------------------------------------------
(* Bounds of the model. *)

\* The longest measures list and the longest dimensions list of an entity.
MaxFields == 2
\* The longest cubes list of a metadata document.
MaxEntities == 2
\* The longest corpus text handed to _calculate_statistics, in characters.
MaxCorpusLen == 5
\* The longest cubes list of a metadata document of the Relationship Extractor.
MaxViews == 2

----------------------------------------------------------------------------
(* Python values. *)

EmptyDict == [k \in {} |-> << >>]
NoneVal == <<"<None>">>

\* k in d
HasKey(d, k) == d # EmptyDict /\ k \in DOMAIN d

\* d.get(k, default)
Get(d, k, default) == IF HasKey(d, k) THEN d[k] ELSE default

\* d.get(k)
GetOrNone(d, k) == Get(d, k, NoneVal)

\* How an f-string renders a value that may be None.
Str(v) == IF v = NoneVal THEN <<"None">> ELSE v

NL == <<"\n">>

\* The grave accent U+0060 of the Markdown code spans, as a piece.
BT == <<"<grave accent>">>

RECURSIVE Flatten(_)
\* "".join(parts)
Flatten(parts) ==
    IF parts = << >> THEN << >> ELSE Head(parts) \o Flatten(Tail(parts))

RECURSIVE Join(_, _)
\* sep.join(parts)
Join(sep, parts) ==
    IF parts = << >> THEN << >>
    ELSE IF Len(parts) = 1 THEN parts[1]
    ELSE parts[1] \o sep \o Join(sep, Tail(parts))

\* The number of line breaks of a text.
LineBreaks(text) == Cardinality({i \in 1..Len(text) : text[i] = "\n"})

\* The number of pieces of text equal to piece.
Count(text, piece) == Cardinality({i \in 1..Len(text) : text[i] = piece})

\* str(n) for a non-negative integer n.
IntStr(n) == <<ToString(n)>>

\* Whether sub occurs in text at index i.
OccursAt(text, sub, i) ==
    /\ i >= 1
    /\ i + Len(sub) - 1 <= Len(text)
    /\ SubSeq(text, i, i + Len(sub) - 1) = sub

\* text.find(sub) counted from 1; 0 when sub does not occur.
Find(text, sub) ==
    LET hits == {i \in 1..(Len(text) - Len(sub) + 1) : OccursAt(text, sub, i)}
    IN  IF hits = {} THEN 0 ELSE CHOOSE i \in hits : \A j \in hits : i <= j

\* sub in text
Contains(text, sub) == Find(text, sub) # 0

RECURSIVE Split(_, _)
\* text.split(sep), for a non-empty sep
Split(text, sep) ==
    LET i == Find(text, sep)
    IN  IF i = 0 THEN <<text>>
        ELSE <<SubSeq(text, 1, i - 1)>>
             \o Split(SubSeq(text, i + Len(sep), Len(text)), sep)

RECURSIVE Replace(_, _, _)
\* text.replace(old, new), for a non-empty old
Replace(text, old, new) ==
    LET i == Find(text, old)
    IN  IF i = 0 THEN text
        ELSE SubSeq(text, 1, i - 1) \o new
             \o Replace(SubSeq(text, i + Len(old), Len(text)), old, new)

Whitespace == {" ", "\n", "\t"}

\* text.strip()
Strip(text) ==
    LET keep == {i \in 1..Len(text) : text[i] \notin Whitespace}
    IN  IF keep = {} THEN << >>
        ELSE SubSeq(text, CHOOSE i \in keep : \A j \in keep : i <= j,
                          CHOOSE i \in keep : \A j \in keep : i >= j)

LowerCase == <<"a", "b", "c", "d", "e", "f", "g", "h", "i", "j", "k", "l", "m",
               "n", "o", "p", "q", "r", "s", "t", "u", "v", "w", "x", "y", "z">>
UpperCase == <<"A", "B", "C", "D", "E", "F", "G", "H", "I", "J", "K", "L", "M",
               "N", "O", "P", "Q", "R", "S", "T", "U", "V", "W", "X", "Y", "Z">>

ToUpper(c) ==
    IF (\E i \in 1..26 : LowerCase[i] = c)
    THEN UpperCase[CHOOSE i \in 1..26 : LowerCase[i] = c] ELSE c

ToLower(c) ==
    IF (\E i \in 1..26 : UpperCase[i] = c)
    THEN LowerCase[CHOOSE i \in 1..26 : UpperCase[i] = c] ELSE c

\* text.capitalize(), for a text held character by character
Capitalize(text) ==
    [i \in 1..Len(text) |-> IF i = 1 THEN ToUpper(text[i]) ELSE ToLower(text[i])]

\* The characters of a word, for the texts the code inspects by character.
Chars(word) ==
    CASE word = "cube" -> <<"c", "u", "b", "e">>
      [] word = "view" -> <<"v", "i", "e", "w">>
      [] word = "join" -> <<"j", "o", "i", "n">>
      [] word = "relationship" -> <<"r", "e", "l", "a", "t", "i", "o", "n", "s", "h", "i", "p">>
      [] word = "cube_" -> <<"c", "u", "b", "e", "_">>
      [] word = "view_" -> <<"v", "i", "e", "w", "_">>
      [] word = "unknown" -> <<"u", "n", "k", "n", "o", "w", "n">>
      [] word = "and " -> <<"a", "n", "d", " ">>
      [] word = "A combined view of" ->
            <<"A", " ", "c", "o", "m", "b", "i", "n", "e", "d", " ",
              "v", "i", "e", "w", " ", "o", "f">>
      [] word = " to provide" ->
            <<" ", "t", "o", " ", "p", "r", "o", "v", "i", "d", "e">>

\* The sequences over S of length at most n.
SeqUpTo(S, n) == UNION {[1..k -> S] : k \in 0..n}

\* The dicts with key k bound to a value of vals, and the dict without k.
Opt(k, vals) == {EmptyDict} \cup {k :> v : v \in vals}

----------------------------------------------------------------------------
(* Field Describer. *)

\* field.get("description") in its place, which has no default.
description_or_none(field) == Str(GetOrNone(field, "description"))

\* field.get("description", "No description provided.")
description_or_default(field) == Get(field, "description", <<"No description provided.">>)

\* The list paragraph of generate_measure_description.
measure_paragraph(cube_name, m) ==
    LET m_name == Get(m, "name", <<"unknown">>)
        m_title == Get(m, "title", m_name)
        m_short == Get(m, "shortTitle", << >>)
        m_desc_text == description_or_default(m)
        m_type == Get(m, "type", <<"unknown">>)
        agg == Get(m, "aggType", <<"unknown">>)
        visible == Get(m, "isVisible", FALSE)
        pub == Get(m, "public", FALSE)
        cumulative == Get(m, "cumulative", FALSE)
        paragraph ==
            << <<"The ">> \o m_name \o <<" is a measure in the ">> \o cube_name \o <<" cube.">>,
               <<"It is a ">> \o agg \o <<" aggregation of type ">> \o m_type \o <<".">>,
               <<"Its full name is ">> \o cube_name \o <<".">> \o m_name,
               <<"Its title is \"">> \o m_title \o <<"\".">> >>
            \o (IF m_short # << >>
                THEN << <<"Its short title is \"">> \o m_short \o <<"\".">> >>
                ELSE << >>)
            \o << <<"Description: ">> \o m_desc_text \o <<".">>,
                  <<"This measure is ", IF visible THEN "visible" ELSE "not visible",
                    " and ", IF pub THEN "public" ELSE "private", ".">>,
                  <<"It is ", IF cumulative THEN "cumulative" ELSE "not cumulative", ".">> >>
    IN  paragraph

\* A generate_measure_description that forgets the closing line break.
generate_measure_description_unterminated(cube_name, m) ==
    Join(NL, measure_paragraph(cube_name, m))

generate_measure_description(cube_name, m) ==
    Join(NL, measure_paragraph(cube_name, m)) \o NL

\* The list paragraph of generate_dimension_description.
dimension_paragraph(cube_name, d) ==
    LET d_name == Get(d, "name", <<"unknown">>)
        d_title == Get(d, "title", d_name)
        d_type == Get(d, "type", <<"unknown">>)
        d_desc_text == description_or_default(d)
        primary == Get(d, "primaryKey", FALSE)
        visible == Get(d, "isVisible", FALSE)
        pub == Get(d, "public", FALSE)
        suggest == Get(d, "suggestFilterValues", FALSE)
        alias == Get(d, "aliasMember", << >>)
        meta == Get(d, "meta", EmptyDict)
        full_name == cube_name \o <<".">> \o d_name
        paragraph ==
            << <<"The ">> \o d_name \o <<" is a dimension in the ">> \o cube_name \o <<" cube.">>,
               <<"It is of type ">> \o d_type \o <<".">>,
               <<"Its full name is ">> \o full_name \o <<".">>,
               <<"Its title is \"">> \o d_title \o <<"\".">>,
               <<"Description: ">> \o d_desc_text \o <<".">>,
               <<"This dimension is ", IF visible THEN "visible" ELSE "not visible",
                 " and ", IF pub THEN "public" ELSE "private", ".">>,
               <<"It is ", IF primary THEN "a primary key" ELSE "not a primary key", ".">>,
               << IF suggest THEN "It suggests filter values."
                  ELSE "It does not suggest filter values." >> >>
            \o (IF alias # << >>
                THEN << <<"It has an alias member '">> \o alias
                        \o <<"', useful for joining across cubes.">> >>
                ELSE << >>)
            \o (IF HasKey(meta, "subEntity")
                THEN << <<"It belongs to the sub-entity '">> \o Str(GetOrNone(meta, "subEntity"))
                        \o <<"'.">> >>
                ELSE << >>)
    IN  paragraph

generate_dimension_description(cube_name, d) ==
    Join(NL, dimension_paragraph(cube_name, d)) \o NL

----------------------------------------------------------------------------
(* Entity Describer. *)

CatalogKeywords == {Chars("join"), Chars("relationship"), Chars("cube_"), Chars("view_")}

generate_catalog_description(catalog) ==
    IF catalog = EmptyDict THEN << >>
    ELSE
    LET dimensions == Get(catalog, "dimensions", << >>)
        bullet(dim) ==
            LET dim_name == Get(dim, "name", Chars("unknown"))
                dim_title == Get(dim, "title", << >>)
                dim_desc == Get(dim, "description", <<"No description available.">>)
            IN  IF (\E keyword \in CatalogKeywords : Contains(dim_name, keyword))
                THEN <<"- **">> \o dim_title \o <<" (">> \o BT \o dim_name \o BT \o <<")**: ">>
                     \o dim_desc \o NL
                ELSE << >>
    IN  <<"# Semantic Catalog - The Metadata Hub">> \o NL \o NL
        \o <<"The 'semantic_catalog' is a special view that acts as a metadata registry for the entire data schema. ">>
        \o <<"It provides a complete picture of all available semantic views, cubes, and their relationships.">>
        \o NL \o NL
        \o <<"## Key Metadata Dimensions in the Catalog:">> \o NL \o NL
        \o Flatten([i \in 1..Len(dimensions) |-> bullet(dimensions[i])])

\* One line of the brief measure summary of a cube.
cube_brief_measure_line(m) ==
    LET m_name == Get(m, "name", <<"unknown">>)
        m_title == Get(m, "title", m_name)
        m_type == Get(m, "type", <<"unknown">>)
        m_agg == Get(m, "aggType", <<"aggregation">>)
        m_desc_text == Strip(Get(m, "description", << >>))
    IN  <<"- **">> \o m_name \o <<"**: A **">> \o m_agg
        \o <<" ** measure with following description : ">> \o m_desc_text \o <<".">>
        \o <<"\" This measure has the title ">> \o m_title
        \o <<"\" and is of type ">> \o m_type

\* One line of the brief dimension summary of a cube.
cube_brief_dimension_line(d) ==
    LET d_name == Get(d, "name", <<"unknown">>)
        d_title == Get(d, "title", d_name)
        d_type == Get(d, "type", <<"unknown">>)
        d_pk == Get(d, "primaryKey", FALSE)
        d_vis == Get(d, "isVisible", FALSE)
    IN  <<"- **">> \o d_name \o <<"**: A **">> \o d_type \o <<"** dimension ">>
        \o (IF d_pk THEN <<"that serves as the primary key">> ELSE << >>) \o <<". ">>
        \o <<"This dimension has the title \"">> \o d_title \o <<"\" and is ">>
        \o <<IF d_vis THEN "visible" ELSE "not visible", ".">>

\* A loop over the measures that starts one element late.
cube_detailed_measures_from_second(name, measures) ==
    [i \in 1..(Len(measures) - 1) |->
        generate_measure_description(name, measures[i + 1])]

\* The detailed measure descriptions of a cube: the loop over measures.
cube_detailed_measures(name, measures) ==
    [i \in 1..Len(measures) |-> generate_measure_description(name, measures[i])]

\* The block generate_cube_description builds.
cube_block(cube) ==
    LET name == Get(cube, "name", <<"UnknownCube">>)
        title == Get(cube, "title", name)
        ctype == Get(cube, "type", Chars("cube"))
        is_visible == Get(cube, "isVisible", TRUE)
        is_public == Get(cube, "public", TRUE)
        description == Get(cube, "description", <<"used for data analysis.">>)
        conn_components == Get(cube, "connectedComponents", << >>)
        measures == Get(cube, "measures", << >>)
        dims == Get(cube, "dimensions", << >>)
        desc ==
            << <<"### Cube: ">> \o title \o NL,
               <<"The **">> \o title
                   \o <<"** cube is a data structure wiht the description:">>
                   \o description \o <<".">> \o NL,
               <<"It has the following properties:">>,
               <<"- **Name:** ">> \o name,
               <<"- **Title:** ">> \o title,
               <<"- **Type:** ">> \o Capitalize(ctype),
               <<"- **Visibility:** ", IF is_visible THEN "visible" ELSE "not visible",
                 ", ", IF is_public THEN "public" ELSE "private">>,
               <<"- **Connected Components:** ">> \o IntStr(Len(conn_components)) \o NL,
               <<"## Measures (Brief Summary)">> \o NL >>
            \o (IF measures # << >>
                THEN << <<"This cube contains **">> \o IntStr(Len(measures))
                        \o <<" measures**:">> \o NL >>
                     \o [i \in 1..Len(measures) |-> cube_brief_measure_line(measures[i])]
                     \o << NL >>
                ELSE << >>)
            \o << <<"## Dimensions (Brief Summary)">> \o NL >>
            \o (IF dims # << >>
                THEN << <<"This cube contains **">> \o IntStr(Len(dims))
                        \o <<" dimensions**:">> \o NL >>
                     \o [i \in 1..Len(dims) |-> cube_brief_dimension_line(dims[i])]
                     \o << NL >>
                ELSE << >>)
            \o << <<"## Detailed Measure Descriptions">> \o NL,
                  <<"Below is a detailed breakdown of each measure, including type, aggregation ",
                    "behavior, visibility, titles, and additional metadata:">> \o NL >>
            \o cube_detailed_measures(name, measures)
            \o << NL >>
            \o << <<"## Detailed Dimension Descriptions">> \o NL,
                  <<"The following section provides detailed information for each dimension, ",
                    "including type, primary key status, visibility, titles, and other metadata:">>
                  \o NL >>
            \o [i \in 1..Len(dims) |-> generate_dimension_description(name, dims[i])]
    IN  Join(NL, desc)

\* A generate_cube_description that returns "" for a falsy cube, as the view
\* describer does.
generate_cube_description_unless_empty(cube) ==
    IF cube = EmptyDict THEN << >> ELSE cube_block(cube)

\* generate_cube_description(cube): no test of the argument, none of
\* seen_entities.
generate_cube_description(cube) == cube_block(cube)

\* The views of one subdivision scanned for view_name: the Business Context
\* sentence of the first view that matches, and out of the innermost loop.
subdivision_context(subdiv_data, view_name) ==
    LET views == Get(subdiv_data, "views", << >>)
        hits == {i \in 1..Len(views) : GetOrNone(views[i], "name") = view_name}
    IN  IF hits = {} THEN << >>
        ELSE LET v == views[CHOOSE i \in hits : \A j \in hits : i <= j]
             IN  <<"**Business Context**: Belongs to the '">>
                 \o Str(GetOrNone(subdiv_data, "display_name"))
                 \o <<"' subdivision and is used for '">>
                 \o Str(GetOrNone(v, "functional_area")) \o <<"'.">> \o NL \o NL

\* The taxonomy's business units, as <<key, value>> pairs in document order.
business_units_items(tax) ==
    Get(Get(Get(tax, "hierarchy", EmptyDict), "division", EmptyDict),
        "business_units", << >>)

\* The three nested loops of generate_view_description over the taxonomy.
business_context(tax, view_name) ==
    LET of_subdiv(item) == subdivision_context(item[2], view_name)
        of_bu(item) ==
            LET subdivisions == Get(item[2], "subdivisions", << >>)
            IN  Flatten([i \in 1..Len(subdivisions) |-> of_subdiv(subdivisions[i])])
        units == business_units_items(tax)
    IN  IF tax = EmptyDict THEN << >>
        ELSE Flatten([i \in 1..Len(units) |-> of_bu(units[i])])

\* Whether generate_view_description returns "" at once.
view_skipped(view, seen) ==
    view = EmptyDict \/ GetOrNone(view, "name") \in seen

\* The name generate_view_description adds to seen_entities.
view_seen_name(view) == Get(view, "name", <<"Unknown">>)

\* The block generate_view_description builds for a view it does not skip.
view_block(view, tax) ==
    LET view_name == view_seen_name(view)
        measures == Get(view, "measures", << >>)
        dimensions == Get(view, "dimensions", << >>)
        metric(m) ==
            <<"- **">> \o Str(Get(m, "title", GetOrNone(m, "name"))) \o <<"** (">> \o BT
            \o Str(GetOrNone(m, "name")) \o BT \o <<"): A ">> \o BT \o Str(GetOrNone(m, "aggType"))
            \o BT \o <<" aggregation.">> \o NL
        attribute(d) ==
            <<"- **">> \o Str(Get(d, "title", GetOrNone(d, "name"))) \o <<"** (">> \o BT
            \o Str(GetOrNone(d, "name")) \o BT \o <<"): Data type is ">> \o BT
            \o Str(GetOrNone(d, "type")) \o BT \o <<".">> \o NL
        measure_detail(m) == generate_measure_description(view_name, m) \o NL
        dimension_detail(d) == generate_dimension_description(view_name, d) \o NL
    IN  <<"# Semantic View: ">> \o Get(view, "title", view_name) \o NL \o NL
        \o <<"**Technical Name**: ">> \o BT \o view_name \o BT \o NL \o NL
        \o <<"**Description**: ">>
        \o Get(view, "description", <<"No description available.">>) \o NL \o NL
        \o business_context(tax, view_name)
        \o (IF measures # << >>
            THEN <<"### Key Metrics (Measures) in ">> \o view_name \o <<":">> \o NL
                 \o Flatten([i \in 1..Len(measures) |-> metric(measures[i])])
            ELSE << >>)
        \o (IF dimensions # << >>
            THEN NL \o <<"### Attributes (Dimensions) in ">> \o view_name \o <<":">> \o NL
                 \o Flatten([i \in 1..Len(dimensions) |-> attribute(dimensions[i])])
            ELSE << >>)
        \o NL \o <<"#### Detailed Fields for ">> \o view_name \o <<":">> \o NL
        \o Flatten([i \in 1..Len(measures) |-> measure_detail(measures[i])])
        \o Flatten([i \in 1..Len(dimensions) |-> dimension_detail(dimensions[i])])

\* A generate_view_description that records the name before it decides to skip.
generate_view_description_marking_skipped(view, tax, seen) ==
    IF view_skipped(view, seen)
    THEN [ret |-> << >>, seen |-> seen \cup {view_seen_name(view)}]
    ELSE [ret |-> view_block(view, tax), seen |-> seen \cup {view_seen_name(view)}]

\* [ret, seen]: what generate_view_description returns and the seen_entities
\* it leaves.
generate_view_description(view, tax, seen) ==
    IF view_skipped(view, seen)
    THEN [ret |-> << >>, seen |-> seen]
    ELSE [ret |-> view_block(view, tax), seen |-> seen \cup {view_seen_name(view)}]

----------------------------------------------------------------------------
(* Taxonomy Renderer. *)

\* if v: for a text that may be None
Truthy(v) == v # << >> /\ v # NoneVal

\* One bullet of the Views list of a subdivision.
hierarchy_view_line(view) ==
    LET name == Get(view, "name", << >>)
        view_type == Get(view, "type", << >>)
        functional_area == Get(view, "functional_area", << >>)
        tags == Get(view, "tags", << >>)
        tags_text == IF tags # << >> THEN Join(<<", ">>, tags)
                     ELSE <<"no associated tags">>
    IN  <<"- **">> \o name \o <<"**: This is a ">> \o view_type
        \o <<" view belonging to the ">>
        \o Replace(functional_area, <<"_">>, <<" ">>) \o <<" functional area. ">>
        \o <<"It includes tags such as ">> \o tags_text \o <<".">> \o NL

\* The text of one subdivision of business unit bu_name.
hierarchy_subdivision(bu_name, item) ==
    LET subdiv_name == item[1]
        subdiv_data == item[2]
        subdiv_desc == Get(subdiv_data, "description", <<"N/A">>)
        functional_areas == Get(subdiv_data, "functional_areas", << >>)
        views == Get(subdiv_data, "views", << >>)
        area_line(area) ==
            Get(area, "display_name", Get(area, "name", << >>))
        area_text(area) ==
            <<"- ">> \o area_line(area) \o <<": ">> \o Get(area, "description", << >>)
            \o <<".">> \o NL
    IN  <<"##### Subdivision: ">> \o subdiv_name \o NL \o NL
        \o <<"The ">> \o bu_name \o <<" business unit has a **">> \o subdiv_name
        \o <<"** subdivision and is used for ">> \o subdiv_desc \o NL \o NL
        \o (IF functional_areas # << >>
            THEN <<"**Functional Areas:**">> \o NL
                 \o Flatten([i \in 1..Len(functional_areas) |->
                                area_text(functional_areas[i])])
                 \o NL
            ELSE << >>)
        \o (IF views # << >>
            THEN <<"**Views:**">> \o NL
                 \o Flatten([i \in 1..Len(views) |-> hierarchy_view_line(views[i])])
                 \o NL
            ELSE << >>)

\* The text of one business unit of division div_name.
hierarchy_business_unit(div_name, item) ==
    LET bu_name == item[1]
        bu_data == item[2]
        display_name == Get(bu_data, "display_name", <<"Unknown">>)
        description == Get(bu_data, "description", <<"Unknown">>)
        subdivisions == Get(bu_data, "subdivisions", << >>)
    IN  <<"#### Business Unit: ">> \o bu_name \o NL \o NL
        \o <<"The ">> \o div_name \o <<" division contains the **">> \o bu_name
        \o <<"** business unit.">> \o NL \o NL
        \o <<"The division with name is known as '">> \o display_name
        \o <<"' and  is user for : ">> \o description \o <<".">> \o NL \o NL
        \o Flatten([i \in 1..Len(subdivisions) |->
                        hierarchy_subdivision(bu_name, subdivisions[i])])

\* The View Classifications section.
hierarchy_classifications(view_classifications) ==
    LET bullet(item) ==
            LET vc_name == item[1]
                vc_data == item[2]
                purpose == Get(vc_data, "purpose", <<"No purpose provided">>)
                data_domains == Get(vc_data, "data_domains", << >>)
                primary_users == Get(vc_data, "primary_users", << >>)
                update_freq == Get(vc_data, "update_frequency", <<"unknown frequency">>)
                domains_text == IF data_domains # << >> THEN Join(<<", ">>, data_domains)
                                ELSE <<"no data domains">>
                users_text == IF primary_users # << >> THEN Join(<<", ">>, primary_users)
                              ELSE <<"no defined users">>
            IN  <<"- **">> \o vc_name \o <<"**: This classification is used for ">>
                \o purpose \o <<". ">>
                \o <<"It covers data domains such as ">> \o domains_text \o <<". ">>
                \o <<"The primary users of this view include ">> \o users_text \o <<". ">>
                \o <<"The data for this classification is updated on a ">> \o update_freq
                \o <<" basis.">> \o NL
    IN  IF view_classifications = << >> THEN << >>
        ELSE <<"### View Classifications">> \o NL \o NL
             \o <<"The business unit includes a set of classified views. ",
                  "Each classification describes the purpose of the view, the data domains it covers, ",
                  "its primary users, and how frequently its data is updated.">> \o NL \o NL
             \o Flatten([i \in 1..Len(view_classifications) |->
                             bullet(view_classifications[i])])
             \o NL

\* The View Relationships section.
hierarchy_relationships(view_relationships) ==
    LET entry(item) ==
            LET view_name == item[1]
                vr_data == item[2]
                related_views == Get(vr_data, "related_views", << >>)
                shared_measures == Get(vr_data, "shared_measures", << >>)
                shared_dimensions == Get(vr_data, "shared_dimensions", << >>)
                relationship_type == GetOrNone(vr_data, "relationship_type")
                related_text == IF related_views # << >> THEN Join(<<", ">>, related_views)
                                ELSE <<"no directly related views">>
                measures_text == IF shared_measures # << >>
                                 THEN Join(<<", ">>, shared_measures) ELSE NoneVal
                dimensions_text == IF shared_dimensions # << >>
                                   THEN Join(<<", ">>, shared_dimensions) ELSE NoneVal
            IN  <<"- **">> \o view_name \o <<"**:">> \o NL
                \o <<"  - Related views: ">> \o related_text \o <<".">> \o NL
                \o (IF Truthy(measures_text)
                    THEN <<"  - Shared measures: ">> \o measures_text \o <<".">> \o NL
                    ELSE << >>)
                \o (IF Truthy(dimensions_text)
                    THEN <<"  - Shared dimensions: ">> \o dimensions_text \o <<".">> \o NL
                    ELSE << >>)
                \o (IF Truthy(relationship_type)
                    THEN <<"  - Relationship type: ">> \o relationship_type \o <<".">> \o NL
                    ELSE << >>)
                \o NL
    IN  IF view_relationships = << >> THEN << >>
        ELSE <<"### View Relationships">> \o NL \o NL
             \o <<"This section describes how different views are connected to one another. ",
                  "Each entry lists related views, and when available, the shared measures, ",
                  "shared dimensions, or special relationship types that define how the views ",
                  "interact within the data ecosystem.">> \o NL \o NL
             \o Flatten([i \in 1..Len(view_relationships) |-> entry(view_relationships[i])])

\* The Metadata Summary section.
hierarchy_metadata(meta) ==
    LET total_views == Get(meta, "total_views", <<"N/A">>)
        view_types == Get(meta, "view_types", << >>)
        business_units == Get(meta, "business_units", <<"N/A">>)
        subdivisions == Get(meta, "subdivisions", <<"N/A">>)
        functional_areas_count == Get(meta, "functional_areas", <<"N/A">>)
        view_type_lines ==
            [i \in 1..Len(view_types) |->
                <<"    - ">> \o Replace(view_types[i][1], <<"_">>, <<" ">>) \o <<": ">>
                \o view_types[i][2]]
        view_type_text == IF view_type_lines # << >> THEN Join(NL, view_type_lines)
                          ELSE <<"    - No detailed view types listed">>
    IN  IF meta = EmptyDict THEN << >>
        ELSE <<"### Metadata Summary">> \o NL \o NL
             \o <<"The following metadata provides a high-level overview of the structure and ",
                  "composition of this business unit, including counts of views, view types, ",
                  "business units, subdivisions, and functional areas.">> \o NL \o NL
             \o <<"- **Total Views:** ">> \o total_views \o NL
             \o <<"- **View Types:**">> \o NL \o view_type_text \o NL
             \o <<"- **Business Units:** ">> \o business_units \o NL
             \o <<"- **Subdivisions:** ">> \o subdivisions \o NL
             \o <<"- **Functional Areas:** ">> \o functional_areas_count \o NL \o NL

\* [ret, raised]: what generate_hierarchy_description returns, or the
\* exception it raises.  Without the organization key, .get falls back to the
\* str 'Organization', and a str has no attribute get.
generate_hierarchy_description(tax) ==
    IF ~HasKey(tax, "organization")
    THEN [ret |-> << >>, raised |-> "AttributeError"]
    ELSE
    LET org_name == Get(tax["organization"], "name", <<"Unknown">>)
        org_code == Get(tax["organization"], "code", <<"N/A">>)
        division == Get(Get(tax, "hierarchy", EmptyDict), "division", EmptyDict)
        div_name == Get(division, "name", <<"Unknown">>)
        business_units == Get(division, "business_units", << >>)
        desc ==
            <<"# Business Hierarchy">> \o NL \o NL
            \o <<"## Organizational Structure">> \o NL \o NL
            \o <<"The **">> \o org_name
            \o <<"** is the top-level organization. The code is ">> \o org_code
            \o NL \o NL
            \o <<"### Division: ">> \o div_name \o NL \o NL
            \o <<"The ">> \o org_name \o <<" has a division called **">> \o div_name
            \o <<"**.">> \o NL \o NL
            \o Flatten([i \in 1..Len(business_units) |->
                            hierarchy_business_unit(div_name, business_units[i])])
            \o hierarchy_classifications(Get(tax, "view_classifications", << >>))
            \o hierarchy_relationships(Get(tax, "view_relationships", << >>))
            \o hierarchy_metadata(Get(tax, "metadata", EmptyDict))
            \o <<"---">> \o NL \o NL
    IN  [ret |-> desc, raised |-> "none"]

----------------------------------------------------------------------------
(* Relationship Extractor. *)

\* The entities under cubes that are views other than the semantic catalog.
semantic_views_of(md) ==
    LET is_semantic_view(c) ==
            /\ GetOrNone(c, "type") = Chars("view")
            /\ GetOrNone(c, "name") # <<"semantic_catalog">>
    IN  SelectSeq(Get(md, "cubes", << >>), is_semantic_view)

\* The list cube_names that generate_relationship_sentences extracts from a
\* description holding the trigger phrase.  Neither subscript can be out of
\* range: the phrase occurs, so its split has a second element, and a split
\* always has a first.
extract_cube_names(description) ==
    LET cube_names_str ==
            Split(Split(description, Chars("A combined view of"))[2],
                  Chars(" to provide"))[1]
        tokens == Split(Replace(cube_names_str, Chars("and "), << >>), <<",">>)
    IN  [i \in 1..Len(tokens) |-> Strip(tokens[i])]

\* The sentence generate_relationship_sentences writes for one view, or "".
relationship_sentence(view) ==
    LET view_name == Get(view, "title", GetOrNone(view, "name"))
        description == Get(view, "description", << >>)
    IN  IF Contains(description, Chars("A combined view of"))
        THEN LET cube_names == extract_cube_names(description)
             IN  IF cube_names # << >>
                 THEN <<"The **">> \o Str(view_name)
                      \o <<"** view is constructed by combining data from the following cubes: **">>
                      \o Join(<<",", " ">>, cube_names) \o <<"**.">> \o NL
                 ELSE << >>
        ELSE << >>

generate_relationship_sentences(md) ==
    LET semantic_views == semantic_views_of(md)
    IN  <<"# View and Cube Relationships">> \o NL \o NL
        \o Flatten([i \in 1..Len(semantic_views) |->
                        relationship_sentence(semantic_views[i])])

----------------------------------------------------------------------------
(* Query-Pattern Synthesizer. *)

\* cubes[:20]
QueryPatternPrefix == 20

\* if d.get('primaryKey')
is_primary_key(d) == Get(d, "primaryKey", FALSE)

\* The Question/Answer pair about the data type of one dimension.
dimension_type_of(cube_title, dim) ==
    LET dim_title == Str(Get(dim, "title", GetOrNone(dim, "name")))
        dim_type == Get(dim, "type", <<"unknown">>)
    IN  <<"**Question**: What is the data type of '">> \o dim_title
        \o <<"' in the '">> \o cube_title \o <<"' view?">> \o NL
        \o <<"**Answer**: In '">> \o cube_title \o <<"', the data type for '">>
        \o dim_title \o <<"' is ">> \o BT \o dim_type \o BT \o <<".">>
        \o NL \o NL

\* The pair asked of every dimension, were dimensions[0] not picked.
dimension_type_pair_of_each(cube_title, dimensions) ==
    Flatten([i \in 1..Len(dimensions) |-> dimension_type_of(cube_title, dimensions[i])])

\* if dimensions: the pair about dimensions[0].
dimension_type_pair(cube_title, dimensions) ==
    IF dimensions # << >>
    THEN dimension_type_of(cube_title, dimensions[1])
    ELSE << >>

\* The Question/Answer pair naming the primary key pk.
primary_key_of(cube_name, pk) ==
    <<"**Question:** What is the primary key of ">> \o cube_name \o <<"?">>
    \o NL \o NL
    \o <<"**Answer:** The primary key is ">>
    \o Str(GetOrNone(pk, "name")) \o <<", ">>
    \o <<"which is a ">> \o Get(pk, "type", <<"unknown">>)
    \o <<" dimension.">> \o NL \o NL

\* The pair naming pk_dims[-1], were pk_dims[0] not picked.
primary_key_pair_of_last(cube_name, dimensions) ==
    LET pk_dims == SelectSeq(dimensions, is_primary_key)
    IN  IF pk_dims # << >>
        THEN primary_key_of(cube_name, pk_dims[Len(pk_dims)])
        ELSE << >>

\* if pk_dims: the pair naming pk_dims[0].
primary_key_pair(cube_name, dimensions) ==
    LET pk_dims == SelectSeq(dimensions, is_primary_key)
    IN  IF pk_dims # << >>
        THEN primary_key_of(cube_name, pk_dims[1])
        ELSE << >>

\* The Question/Answer pairs of one entity.
query_patterns_of(cube) ==
    LET cube_name == Get(cube, "name", <<"Unknown">>)
        cube_title == Get(cube, "title", cube_name)
        measures == Get(cube, "measures", << >>)
        dimensions == Get(cube, "dimensions", << >>)
        quoted_title(m) ==
            <<"'">> \o Str(Get(m, "title", GetOrNone(m, "name"))) \o <<"'">>
    IN  (IF Truthy(GetOrNone(cube, "description"))
         THEN <<"**Question**: What is the purpose of the '">> \o cube_title \o <<"'?">> \o NL
              \o <<"**Answer**: The '">> \o cube_title \o <<"' (technical name: ">> \o BT
              \o cube_name \o BT \o <<") is used for: ">> \o cube["description"] \o NL \o NL
         ELSE << >>)
        \o (IF measures # << >>
            THEN <<"**Question**: What metrics are available in '">> \o cube_title
                 \o <<"'?">> \o NL
                 \o <<"**Answer**: The '">> \o cube_title
                 \o <<"' provides the following metrics: ">>
                 \o Join(<<", ">>, [i \in 1..Len(measures) |-> quoted_title(measures[i])])
                 \o <<".">> \o NL \o NL
            ELSE << >>)
        \o (IF measures # << >>
            THEN <<"**Question:** What measures are in ">> \o cube_name \o <<"?">>
                 \o NL \o NL
                 \o <<"**Answer:** The ">> \o cube_name \o <<" cube has ">>
                 \o IntStr(Len(measures)) \o <<" measures: ">>
                 \o Join(<<", ">>, [i \in 1..Len(measures) |->
                                        Get(measures[i], "name", <<"unknown">>)])
                 \o <<".">> \o NL \o NL
            ELSE << >>)
        \o dimension_type_pair(cube_title, dimensions)
        \o (IF measures # << >>
            THEN LET measure == measures[1]
                     measure_title == Str(Get(measure, "title", GetOrNone(measure, "name")))
                 IN  <<"**Question**: Where can I find the '">> \o measure_title
                     \o <<"' metric?">> \o NL
                     \o <<"**Answer**: The metric '">> \o measure_title
                     \o <<"' is located in the **">> \o cube_title \o <<"** cube/view.">>
                     \o NL \o NL
            ELSE << >>)
        \o primary_key_pair(cube_name, dimensions)

generate_query_patterns(md) ==
    LET cubes == Get(md, "cubes", << >>)
        first == SubSeq(cubes, 1, IF Len(cubes) < QueryPatternPrefix
                                  THEN Len(cubes) ELSE QueryPatternPrefix)
    IN  <<"# Example Questions and Answers">> \o NL \o NL
        \o Flatten([i \in 1..Len(first) |-> query_patterns_of(first[i])])

----------------------------------------------------------------------------
(* InstructionGenerator (GENERATE_INSTRUCTIONS.py). *)

SystemContent ==
    <<"You are a metadata expert for Bayer Crop Science. Answer questions about cubes from your knowledge.">>

\* _format_measures_answer(cube_name, measures); strip() takes the line
\* breaks after the last measure.
format_measures_answer(cube_name, measures) ==
    LET entry(i) ==
            LET m_name == Get(measures[i], "name", <<"unknown">>)
                m_title == Get(measures[i], "title", m_name)
                agg_type == Get(measures[i], "aggType", <<"unknown">>)
            IN  IntStr(i) \o <<". **">> \o Str(m_name) \o <<"**">> \o NL
                \o <<"   - Title: ">> \o Str(m_title) \o NL
                \o <<"   - Aggregation: ">> \o Str(agg_type) \o NL \o NL
    IN  Strip(<<"The ">> \o cube_name \o <<" cube has ">> \o IntStr(Len(measures))
              \o <<" measures:">> \o NL \o NL
              \o Flatten([i \in 1..Len(measures) |-> entry(i)]))

\* One item of the list: the three messages.
instruction(question, answer) ==
    [messages |-> << [role |-> "system", content |-> SystemContent],
                     [role |-> "user", content |-> question],
                     [role |-> "assistant", content |-> answer] >>]

\* Instruction 1 of a cube, if it has measures.
measures_instruction(cube) ==
    LET cube_name == Get(cube, "name", <<"Unknown">>)
        measures == Get(cube, "measures", << >>)
    IN  IF measures # << >>
        THEN << instruction(<<"What measures are in ">> \o cube_name \o <<"?">>,
                            format_measures_answer(cube_name, measures)) >>
        ELSE << >>

\* Instruction 2 of a cube, if a dimension is flagged primaryKey.
primary_key_instruction(cube) ==
    LET cube_name == Get(cube, "name", <<"Unknown">>)
        pk_dims == SelectSeq(Get(cube, "dimensions", << >>), is_primary_key)
    IN  IF pk_dims # << >>
        THEN << instruction(<<"What is the primary key of ">> \o cube_name \o <<"?">>,
                            <<"The primary key of ">> \o cube_name \o <<" is ">>
                            \o Str(GetOrNone(pk_dims[1], "name")) \o <<", which is a ">>
                            \o Str(GetOrNone(pk_dims[1], "type")) \o <<" dimension.">>) >>
        ELSE << >>

\* The items of one cube, were the primary key asked first.
instructions_of_key_first(cube) ==
    primary_key_instruction(cube) \o measures_instruction(cube)

\* The items one pass of the loop over cubes appends.
instructions_of(cube) ==
    measures_instruction(cube) \o primary_key_instruction(cube)

\* generate_instructions()
generate_instructions(md) ==
    LET cubes == Get(md, "cubes", << >>)
    IN  Flatten([i \in 1..Len(cubes) |-> instructions_of(cubes[i])])

----------------------------------------------------------------------------
(* Corpus Orchestrator. *)

\* The elements of a set of indices, ascending.
Ascending(S) ==
    [k \in 1..Cardinality(S) |->
        CHOOSE i \in S : Cardinality({j \in S : j < i}) = k - 1]

\* The three list comprehensions of generate_full_corpus; an entity is held
\* by its position in cubes_list, as the lists hold the entity objects.
catalog_views_of(cubes_list) ==
    Ascending({i \in 1..Len(cubes_list) :
        GetOrNone(cubes_list[i], "name") = <<"semantic_catalog">>})

semantic_views_indices(cubes_list) ==
    Ascending({i \in 1..Len(cubes_list) :
        /\ GetOrNone(cubes_list[i], "type") = Chars("view")
        /\ GetOrNone(cubes_list[i], "name") # <<"semantic_catalog">>})

data_cubes_of(cubes_list) ==
    Ascending({i \in 1..Len(cubes_list) :
        GetOrNone(cubes_list[i], "type") = Chars("cube")})

\* "\n\n---\n\n"
Separator == <<"\n", "\n", "-", "-", "-", "\n", "\n">>

\* len(corpus.split()): the maximal runs of pieces that are not whitespace.
WordCount(corpus) ==
    Cardinality({i \in 1..Len(corpus) :
        /\ corpus[i] \notin Whitespace
        /\ (i = 1 \/ corpus[i - 1] \in Whitespace)})

\* round(words * 1.3), were it used for the estimate: the nearest integer,
\* the even one of two equally near.
estimated_tokens_rounded(words) ==
    LET q == (13 * words) \div 10
        r == (13 * words) % 10
    IN  IF r > 5 \/ (r = 5 /\ q % 2 = 1) THEN q + 1 ELSE q

\* int(words * 1.3): the product is a float that int() truncates.  The double
\* nearest to 1.3 lies above 1.3 and words * 1.3 is never rounded below the
\* exact 13 * words / 10, so the result is the integer quotient.
estimated_tokens_of(words) == (13 * words) \div 10

\* _calculate_statistics(corpus) with n parts in corpus_parts; characters
\* counts pieces, so it is len(corpus) for a corpus held character by character.
calculate_statistics(n, corpus) ==
    [total_parts |-> n,
     characters |-> Len(corpus),
     words |-> WordCount(corpus),
     estimated_tokens |-> estimated_tokens_of(WordCount(corpus))]

\* What opening and writing a file can do.
IOOutcomes == {"written", "open fails", "write fails"}

\* The statistics file after _save_statistics under the given outcome: open
\* fails too when training_data/ does not exist; a write that fails leaves the
\* file that open created or truncated.  IOError is caught.
save_statistics(files, st, outcome) ==
    IF ~files.dir \/ outcome = "open fails" THEN files
    ELSE IF outcome = "write fails"
    THEN [files EXCEPT !.stats_file = [exists |-> TRUE, content |-> EmptyDict]]
    ELSE [files EXCEPT !.stats_file = [exists |-> TRUE, content |-> st]]

\* The corpus opened by a title line, were one written before the parts.
full_corpus_with_title(parts) ==
    <<"#", " ", "C", "o", "r", "p", "u", "s">> \o Separator \o Join(Separator, parts)

\* "\n\n---\n\n".join(self.corpus_parts)
full_corpus_of(parts) == Join(Separator, parts)

\* The corpus file after the with-block of save_corpus under the given
\* outcome; the directory exists by then.  IOError is caught.
write_corpus(files, corpus, outcome) ==
    IF outcome = "open fails" THEN files
    ELSE IF outcome = "write fails"
    THEN [files EXCEPT !.corpus_file = [exists |-> TRUE, content |-> << >>]]
    ELSE [files EXCEPT !.corpus_file = [exists |-> TRUE, content |-> corpus]]

\* save_corpus, were it to give up on the corpus once the statistics failed.
save_corpus_files_all_or_nothing(files, st, corpus, io) ==
    LET saved == save_statistics(files, st, io.stats)
    IN  IF ~io.mkdir
        THEN [fs |-> saved, raised |-> "OSError"]
        ELSE IF saved = files /\ io.stats # "written"
        THEN [fs |-> [saved EXCEPT !.dir = TRUE], raised |-> "none"]
        ELSE [fs |-> write_corpus([saved EXCEPT !.dir = TRUE], corpus, io.corpus),
              raised |-> "none"]

\* The files after save_corpus, and what it raises: generate_full_corpus
\* saves the statistics; parent.mkdir(parents=True, exist_ok=True) stands
\* outside every try, so its OSError reaches the caller; the corpus is written.
save_corpus_files(files, st, corpus, io) ==
    LET saved == save_statistics(files, st, io.stats)
    IN  IF ~io.mkdir
        THEN [fs |-> saved, raised |-> "OSError"]
        ELSE [fs |-> write_corpus([saved EXCEPT !.dir = TRUE], corpus, io.corpus),
              raised |-> "none"]

\* What the file system can answer during one save_corpus on the given
\* files: creating a directory that exists cannot fail, and nothing can be
\* opened in a directory that does not exist.
IOAnswers(files) ==
    {io \in [stats : IOOutcomes, mkdir : BOOLEAN, corpus : IOOutcomes] :
        /\ files.dir => io.mkdir
        /\ ~files.dir => io.stats = "open fails"}

----------------------------------------------------------------------------
(* The documents and records the model draws its inputs from. *)

\* Owning-entity names handed to the Field Describer.
OwnerNames == {<<"C1">>, <<"V1">>}

\* Measure records: every optional attribute present, absent, or (shortTitle) empty.
MeasurePool ==
    {("name" :> <<"m1">>) @@ ("aggType" :> <<"sum">>) @@ t @@ s @@ d @@ c :
        t \in Opt("title", {<<"Revenue">>}),
        s \in Opt("shortTitle", {<< >>, <<"Rev">>}),
        d \in Opt("description", {<<"Total revenue">>}),
        c \in Opt("cumulative", {TRUE})}

\* Dimension records, likewise.
DimensionPool ==
    {("name" :> <<"d1">>) @@ ("type" :> <<"string">>) @@ d @@ a @@ mt @@ pk :
        d \in Opt("description", {<<"Order id">>}),
        a \in Opt("aliasMember", {<< >>, <<"orders.id">>}),
        mt \in Opt("meta", {EmptyDict, "subEntity" :> <<"order">>}),
        pk \in Opt("primaryKey", {TRUE})}

\* The i-th measure of an entity: the first carries every attribute, the
\* others only a name.
MeasureAt(i) ==
    IF i = 1
    THEN [name |-> <<"m", "1">>, title |-> <<"Revenue">>, shortTitle |-> <<"Rev">>,
          description |-> <<"Total revenue">>, type |-> <<"number">>,
          aggType |-> <<"sum">>]
    ELSE [name |-> <<"m", ToString(i)>>]

\* The i-th dimension of an entity: the second is a primary key.
DimensionAt(i) ==
    IF i = 2
    THEN [name |-> <<"d", "2">>, type |-> <<"string">>, primaryKey |-> TRUE,
          aliasMember |-> <<"orders.id">>]
    ELSE [name |-> <<"d", ToString(i)>>]

MeasuresOf(k) == [i \in 1..k |-> MeasureAt(i)]
DimensionsOf(k) == [i \in 1..k |-> DimensionAt(i)]

ViewV1 == <<"V1">>
ViewV2 == <<"V2">>
CubeC1 == <<"C1">>
SemanticCatalog == <<"semantic_catalog">>

\* Entity records handed to the Entity Describer: without a name, a view, a
\* cube; with no measures key or 1..MaxFields measures; with no dimension or
\* MaxFields of them.  The empty record stands for a falsy argument.
EntityPool ==
    {EmptyDict}
    \cup {n @@ ms @@ ("dimensions" :> DimensionsOf(j)) :
            n \in {[title |-> <<"Untitled">>],
                   [name |-> ViewV1, type |-> Chars("view"),
                    description |-> <<"Sales by region">>],
                   [name |-> CubeC1, type |-> Chars("cube"), title |-> <<"Orders">>]},
            ms \in {EmptyDict} \cup {"measures" :> MeasuresOf(k) : k \in 1..MaxFields},
            j \in {0, MaxFields}}

\* The semantic_catalog entity, whose dimension names are held character by
\* character, and two degenerate catalogs.
CatalogPool ==
    {EmptyDict,
     [name |-> SemanticCatalog],
     [name |-> SemanticCatalog, type |-> Chars("view"),
      dimensions |->
        << [name |-> Chars("cube_") \o <<"i", "d">>, title |-> <<"Cube id">>,
            description |-> <<"The cube a row describes">>],
           [name |-> <<"i", "d">>, title |-> <<"Id">>],
           [title |-> <<"Nameless">>],
           [name |-> <<"r", "e">> \o Chars("join") \o <<"s">>] >>]}

\* A view entry of a subdivision.
TaxView(name, area) ==
    [name |-> name, type |-> <<"business_application">>,
     functional_area |-> area, tags |-> << <<"core">>, <<"daily">> >>]

\* A subdivision listing the given view entries.
TaxSubdivision(display, views) ==
    [display_name |-> display, description |-> <<"Subdivision of the unit">>,
     functional_areas |->
        << [name |-> <<"gene_editing">>, display_name |-> <<"Gene Editing">>,
            description |-> <<"Editing of genes">>],
           [name |-> <<"field_trials">>] >>,
     views |-> views]

\* A business unit with the given subdivisions, as <<key, value>> pairs.
TaxBusinessUnit(display, subdivisions) ==
    [display_name |-> display, description |-> <<"Research">>,
     subdivisions |-> subdivisions]

\* A taxonomy with the given business units, as <<key, value>> pairs.
TaxHierarchy(business_units) ==
    [hierarchy |-> [division |-> [name |-> <<"Crop Science">>,
                                  business_units |-> business_units]]]

TaxOrganization == [organization |-> [name |-> <<"Acme">>, code |-> <<"ACM">>]]

AreaA == <<"gene", "_", "editing">>
AreaB == <<"field", "_", "trials">>

\* V1 is listed by two subdivisions of one business unit.
TaxSameUnit ==
    TaxOrganization @@ TaxHierarchy(
        << << <<"RnD">>, TaxBusinessUnit(<<"Research and Development">>,
                << << <<"breeding">>, TaxSubdivision(<<"Breeding">>,
                        <<TaxView(ViewV1, AreaA)>>)>>,
                   << <<"biotech">>, TaxSubdivision(<<"Biotech">>,
                        <<TaxView(ViewV2, AreaA), TaxView(ViewV1, AreaB)>>)>> >>)>> >>)

\* V1 is listed by one subdivision of each of two business units, and twice
\* in the first of them.
TaxTwoUnits ==
    TaxOrganization @@ TaxHierarchy(
        << << <<"RnD">>, TaxBusinessUnit(<<"Research and Development">>,
                << << <<"breeding">>, TaxSubdivision(<<"Breeding">>,
                        <<TaxView(ViewV1, AreaA), TaxView(ViewV1, AreaB)>>)>> >>)>>,
           << <<"Ops">>, TaxBusinessUnit(<<"Operations">>,
                << << <<"supply">>, [views |-> <<TaxView(ViewV1, AreaB)>>]>> >>)>> >>)

\* Every section filled; V1 is listed once, V2 never, and one entry names a
\* view the metadata does not hold.
TaxFull ==
    TaxOrganization
    @@ TaxHierarchy(
        << << <<"RnD">>, TaxBusinessUnit(<<"Research and Development">>,
                << << <<"breeding">>, TaxSubdivision(<<"Breeding">>,
                        <<TaxView(<<"Dangling">>, AreaA), TaxView(ViewV1, AreaA),
                          [name |-> <<"Bare">>]>>)>>,
                   << <<"empty">>, EmptyDict>> >>)>>,
           << <<"Idle">>, EmptyDict>> >>)
    @@ [view_classifications |->
            << << <<"operational">>, [purpose |-> <<"daily operations">>,
                                 data_domains |-> << <<"sales">>, <<"stock">> >>,
                                 primary_users |-> << <<"analysts">> >>,
                                 update_frequency |-> <<"daily">>]>>,
               << <<"adhoc">>, EmptyDict>> >>,
        view_relationships |->
            << << <<"V1">>, [related_views |-> << <<"V2">> >>,
                        shared_measures |-> << <<"m1">>, <<"m2">> >>,
                        shared_dimensions |-> << <<"d1">> >>,
                        relationship_type |-> <<"sibling">>]>>,
               << <<"V2">>, EmptyDict>> >>,
        metadata |-> [total_views |-> <<"2">>,
                      view_types |-> << <<<<"business", "_", "application">>, <<"2">>>> >>,
                      business_units |-> <<"2">>]]

\* A taxonomy file without the organization section.
TaxNoOrganization ==
    TaxHierarchy(<< << <<"RnD">>, TaxBusinessUnit(<<"Research and Development">>, << >>)>> >>)

\* What self.taxonomy can be after __init__; the empty dict is what
\* _load_json returns for a missing or malformed file.
TaxonomyDocs == {EmptyDict, TaxSameUnit, TaxTwoUnits, TaxFull, TaxNoOrganization}

\* Entities as generate_full_corpus classifies them: every combination of a
\* name (none, the catalog's, a view's, a cube's) and a type (none, view, cube).
ClassifiedEntities ==
    {n @@ t : n \in Opt("name", {SemanticCatalog, ViewV1, CubeC1}),
              t \in Opt("type", {Chars("view"), Chars("cube")})}

\* What self.metadata can be for the classification: a cubes list of up to
\* MaxEntities such entities, a document without cubes, or the empty dict of
\* a failed load.
ClassifiedDocs ==
    {EmptyDict, [version |-> <<"1">>]}
    \cup {[cubes |-> es] : es \in SeqUpTo(ClassifiedEntities, MaxEntities)}

\* Cube names as view descriptions list them, character by character; the
\* last holds the characters "and ".
ListedCubeNames ==
    {<<"O">>, <<"C", "s">>, <<"B", "r", "a", "n", "d", " ", "X">>}

\* "A combined view of c1, c2, and c3 to provide x."
CombinedViewOf(c1, c2, c3) ==
    Chars("A combined view of") \o <<" ">> \o c1 \o <<",", " ">> \o c2
    \o <<",", " ">> \o Chars("and ") \o c3 \o Chars(" to provide") \o <<" ", "x", ".">>

\* View descriptions: of the form above; without the trigger phrase; with the
\* trigger phrase and no " to provide" after it; with " to provide" only
\* before the trigger phrase.
DescriptionPool ==
    {CombinedViewOf(c1, c2, c3) : c1, c2, c3 \in ListedCubeNames}
    \cup {<<"O", ",", " ", "C", "s">>,
          << >>,
          Chars("A combined view of") \o <<" ", "O", ",", " ", "C", "s">>,
          <<"x">> \o Chars(" to provide") \o <<" ">> \o Chars("A combined view of")
              \o <<" ", "O">>}

\* The entities of the Relationship Extractor's documents, still unnamed.
RelationshipEntities ==
    {[type |-> Chars("view"), description |-> d] : d \in DescriptionPool}
    \cup {[type |-> Chars("view")],
          [type |-> Chars("cube"),
           description |-> CombinedViewOf(<<"O">>, <<"O">>, <<"O">>)]}

\* Documents of 1..MaxViews such entities, the i-th named Vi, and one that
\* also holds the semantic catalog.
RelationshipDocs ==
    {[cubes |-> [i \in 1..Len(es) |-> ("name" :> <<"V", ToString(i)>>) @@ es[i]]] :
        es \in SeqUpTo(RelationshipEntities, MaxViews) \ {<< >>}}
    \cup {[cubes |-> << [name |-> SemanticCatalog, type |-> Chars("view"),
                        description |-> CombinedViewOf(<<"O">>, <<"O">>, <<"O">>)] >>]}

\* Corpus texts, character by character, of up to MaxCorpusLen characters.
CorpusPool == SeqUpTo({"a", " ", "\n"}, MaxCorpusLen)

\* A small metadata document: a view, a cube and the catalog.
MetaSmall ==
    [cubes |->
        << [name |-> ViewV1, type |-> Chars("view"), title |-> <<"Sales">>,
            description |-> CombinedViewOf(<<"O">>, <<"C", "s">>, <<"O">>),
            measures |-> MeasuresOf(MaxFields), dimensions |-> DimensionsOf(MaxFields)],
           [name |-> CubeC1, type |-> Chars("cube"), dimensions |-> DimensionsOf(1)],
           [name |-> SemanticCatalog, type |-> Chars("view")] >>]

\* Dimension lists of the Query-Pattern Synthesizer's entities: without a
\* primary key (the flag absent or false), with the second dimension the
\* only key, with both dimensions keys.
DimensionsNoKey ==
    << [name |-> <<"d1">>, type |-> <<"string">>, primaryKey |-> FALSE],
       [name |-> <<"d2">>] >>

DimensionsSecondKey ==
    << [name |-> <<"d1">>, type |-> <<"string">>],
       [name |-> <<"d2">>, type |-> <<"number">>, primaryKey |-> TRUE] >>

DimensionsBothKeys ==
    << [name |-> <<"d1">>, title |-> <<"Order">>, primaryKey |-> TRUE],
       [name |-> <<"d2">>, type |-> <<"number">>, primaryKey |-> TRUE] >>

\* The entities of the Query-Pattern Synthesizer's documents, still unnamed:
\* every combination of the producing fields present or absent, and the
\* fields present but empty.
QueryEntities ==
    {d @@ m @@ dm :
        d \in Opt("description", {<<"Sales facts">>}),
        m \in Opt("measures", {MeasuresOf(MaxFields)}),
        dm \in Opt("dimensions", {DimensionsNoKey, DimensionsSecondKey,
                                  DimensionsBothKeys})}
    \cup {[description |-> << >>],
          [description |-> NoneVal, measures |-> << >>, dimensions |-> << >>]}

\* The name and the title of the entity at position i.
QueryName(i) == <<"E" \o ToString(i)>>

QueryTitle(i) == <<"T" \o ToString(i)>>

\* The entity at position i: named, and titled at the odd positions.
QueryEntityAt(i, e) ==
    IF i % 2 = 1
    THEN ("name" :> QueryName(i)) @@ ("title" :> QueryTitle(i)) @@ e
    ELSE ("name" :> QueryName(i)) @@ e

\* Documents of 1..MaxEntities such entities; the empty dict; and a document
\* of one entity more than generate_query_patterns processes.
QueryDocs ==
    {[cubes |-> [i \in 1..Len(es) |-> QueryEntityAt(i, es[i])]] :
        es \in SeqUpTo(QueryEntities, MaxEntities) \ {<< >>}}
    \cup {EmptyDict,
          [cubes |-> [i \in 1..(QueryPatternPrefix + 1) |->
                        QueryEntityAt(i, [description |-> <<"Sales facts">>])]]}

NoCall == [op |-> "none", args |-> << >>]
NoStats == EmptyDict
NoFile == [exists |-> FALSE]

\* The state right after __init__, for given documents.
NoGenerator == EmptyDict

\* The state after __init__ of one generator, beside a second one or none.
ConstructedBeside(md, tx, vo, dir, second) ==
    /\ metadata = md
    /\ taxonomy = tx
    /\ views_only = vo
    /\ corpus_parts = << >>
    /\ seen_entities = {}
    /\ call = NoCall
    /\ ret = << >>
    /\ raised = "none"
    /\ repeated = FALSE
    /\ classified = EmptyDict
    /\ stats = NoStats
    /\ fs = [dir |-> dir, stats_file |-> NoFile, corpus_file |-> NoFile]
    /\ other = second

Constructed(md, tx, vo, dir) == ConstructedBeside(md, tx, vo, dir, NoGenerator)

\* A call of method op with arguments args on this generator is recorded;
\* no other generator is touched.
Called(op, args) ==
    /\ call' = [op |-> op, args |-> args]
    /\ repeated' = (call = [op |-> op, args |-> args] /\ ret # << >>)
    /\ other' = other

----------------------------------------------------------------------------
(* The Field Describer as operations of the generator. *)

MeasureDescriptionCall(owners, pool) ==
    \E cube_name \in owners, m \in pool :
        /\ Called("generate_measure_description", <<cube_name, m>>)
        /\ ret' = generate_measure_description(cube_name, m)
        /\ raised' = "none"
        /\ UNCHANGED <<metadata, taxonomy, views_only, corpus_parts, seen_entities,
                       classified, stats, fs>>

DimensionDescriptionCall(owners, pool) ==
    \E cube_name \in owners, d \in pool :
        /\ Called("generate_dimension_description", <<cube_name, d>>)
        /\ ret' = generate_dimension_description(cube_name, d)
        /\ raised' = "none"
        /\ UNCHANGED <<metadata, taxonomy, views_only, corpus_parts, seen_entities,
                       classified, stats, fs>>

InitField == Constructed(EmptyDict, EmptyDict, EmptyDict, TRUE)

GenerateMeasureDescriptionField == MeasureDescriptionCall(OwnerNames, MeasurePool)

GenerateDimensionDescriptionField == DimensionDescriptionCall(OwnerNames, DimensionPool)

NextField == GenerateMeasureDescriptionField \/ GenerateDimensionDescriptionField

\* The Field Describer applied to single field records.
SpecField == InitField /\ [][NextField]_vars

----------------------------------------------------------------------------
(* The Entity Describer as operations of the generator. *)

Unchanged_documents == UNCHANGED <<metadata, taxonomy, views_only>>

GenerateCatalogDescription ==
    \E catalog \in CatalogPool :
        /\ Called("generate_catalog_description", <<catalog>>)
        /\ ret' = generate_catalog_description(catalog)
        /\ raised' = "none"
        /\ Unchanged_documents
        /\ UNCHANGED <<corpus_parts, seen_entities, classified, stats, fs>>

GenerateCubeDescription ==
    \E cube \in EntityPool :
        /\ Called("generate_cube_description", <<cube>>)
        /\ ret' = generate_cube_description(cube)
        /\ raised' = "none"
        /\ Unchanged_documents
        /\ UNCHANGED <<corpus_parts, seen_entities, classified, stats, fs>>

GenerateViewDescription ==
    \E view \in EntityPool :
        LET result == generate_view_description(view, taxonomy, seen_entities)
        IN  /\ Called("generate_view_description", <<view>>)
            /\ ret' = result.ret
            /\ seen_entities' = result.seen
            /\ raised' = "none"
            /\ Unchanged_documents
            /\ UNCHANGED <<corpus_parts, classified, stats, fs>>

InitEntity ==
    \E tx \in TaxonomyDocs : Constructed([cubes |-> << >>], tx, EmptyDict, TRUE)

NextEntity ==
    \/ GenerateCatalogDescription
    \/ GenerateCubeDescription
    \/ GenerateViewDescription

\* The Entity Describer applied to entity records, in any order and any
\* number of times, on one generator.
SpecEntity == InitEntity /\ [][NextEntity]_vars

----------------------------------------------------------------------------
(* The other generators and the orchestrator as operations. *)

GenerateHierarchyDescription ==
    LET result == generate_hierarchy_description(taxonomy)
    IN  /\ Called("generate_hierarchy_description", << >>)
        /\ ret' = result.ret
        /\ raised' = result.raised
        /\ Unchanged_documents
        /\ UNCHANGED <<corpus_parts, seen_entities, classified, stats, fs>>

GenerateRelationshipSentences ==
    /\ Called("generate_relationship_sentences", << >>)
    /\ ret' = generate_relationship_sentences(metadata)
    /\ raised' = "none"
    /\ Unchanged_documents
    /\ UNCHANGED <<corpus_parts, seen_entities, classified, stats, fs>>

GenerateQueryPatterns ==
    /\ Called("generate_query_patterns", << >>)
    /\ ret' = generate_query_patterns(metadata)
    /\ raised' = "none"
    /\ Unchanged_documents
    /\ UNCHANGED <<corpus_parts, seen_entities, classified, stats, fs>>

\* _calculate_statistics(corpus)
CalculateStatistics ==
    \E corpus \in CorpusPool :
        /\ Called("_calculate_statistics", <<corpus>>)
        /\ stats' = calculate_statistics(Len(corpus_parts), corpus)
        /\ ret' = << >>
        /\ raised' = "none"
        /\ Unchanged_documents
        /\ UNCHANGED <<corpus_parts, seen_entities, classified, fs>>

\* generate_full_corpus(): classify, join the parts, compute and save the
\* statistics, return the corpus.
GenerateFullCorpus ==
    \E outcome \in IOOutcomes :
        LET cubes_list == Get(metadata, "cubes", << >>)
            full_corpus == full_corpus_of(corpus_parts)
            st == calculate_statistics(Len(corpus_parts), full_corpus)
        IN  /\ Called("generate_full_corpus", << >>)
            /\ classified' = [catalog_views |-> catalog_views_of(cubes_list),
                              semantic_views |-> semantic_views_indices(cubes_list),
                              data_cubes |-> data_cubes_of(cubes_list)]
            /\ stats' = st
            /\ fs' = save_statistics(fs, st, outcome)
            /\ ret' = full_corpus
            /\ raised' = "none"
            /\ Unchanged_documents
            /\ UNCHANGED <<corpus_parts, seen_entities>>

\* save_corpus(output_path), with output_path in training_data/ as main()
\* passes it; io is what the file system answers during the call.
SaveCorpus ==
    \E io \in IOAnswers(fs) :
        LET cubes_list == Get(metadata, "cubes", << >>)
            full_corpus == full_corpus_of(corpus_parts)
            st == calculate_statistics(Len(corpus_parts), full_corpus)
            result == save_corpus_files(fs, st, full_corpus, io)
        IN  /\ Called("save_corpus", <<io>>)
            /\ classified' = [catalog_views |-> catalog_views_of(cubes_list),
                              semantic_views |-> semantic_views_indices(cubes_list),
                              data_cubes |-> data_cubes_of(cubes_list)]
            /\ stats' = st
            /\ fs' = result.fs
            /\ ret' = << >>
            /\ raised' = result.raised
            /\ Unchanged_documents
            /\ UNCHANGED <<corpus_parts, seen_entities>>

\* Metadata documents of the runs that save: a failed load, the small
\* document, and a single entity of every name and type.
SavedDocs ==
    {EmptyDict, MetaSmall} \cup {[cubes |-> <<e>>] : e \in ClassifiedEntities}

InitSave ==
    \E md \in SavedDocs, dir \in BOOLEAN :
        Constructed(md, EmptyDict, EmptyDict, dir)

NextSave ==
    \/ SaveCorpus
    \/ GenerateFullCorpus

\* The orchestrator and the files it writes.
SpecSave == InitSave /\ [][NextSave]_vars

InitClassify ==
    \E md \in ClassifiedDocs, dir \in BOOLEAN :
        Constructed(md, EmptyDict, EmptyDict, dir)

NextClassify == GenerateFullCorpus

\* generate_full_corpus on metadata documents of every entity shape.
SpecClassify == InitClassify /\ [][NextClassify]_vars

InitRelationship ==
    \E md \in RelationshipDocs : Constructed(md, EmptyDict, EmptyDict, TRUE)

NextRelationship == GenerateRelationshipSentences

\* The Relationship Extractor on views of every description shape.
SpecRelationship == InitRelationship /\ [][NextRelationship]_vars

InitQuery ==
    \E md \in QueryDocs : Constructed(md, EmptyDict, EmptyDict, TRUE)

NextQuery == GenerateQueryPatterns

\* The Query-Pattern Synthesizer on entities of every field combination.
SpecQuery == InitQuery /\ [][NextQuery]_vars

InitStatistics == Constructed(EmptyDict, EmptyDict, EmptyDict, TRUE)

NextStatistics == CalculateStatistics

\* _calculate_statistics on corpus texts.
SpecStatistics == InitStatistics /\ [][NextStatistics]_vars

\* The documents after __init__: each loaded, or the empty dict of a failed
\* load.
Init ==
    \E md \in {EmptyDict, MetaSmall}, tx \in {EmptyDict, TaxFull} :
        Constructed(md, tx, EmptyDict, TRUE)

GenerateMeasureDescription == MeasureDescriptionCall({CubeC1}, {MeasureAt(1), MeasureAt(2)})

GenerateDimensionDescription ==
    DimensionDescriptionCall({CubeC1}, {DimensionAt(1), DimensionAt(2)})

Next ==
    \/ GenerateCatalogDescription
    \/ GenerateCubeDescription
    \/ GenerateViewDescription
    \/ GenerateMeasureDescription
    \/ GenerateDimensionDescription
    \/ GenerateHierarchyDescription
    \/ GenerateRelationshipSentences
    \/ GenerateQueryPatterns
    \/ GenerateFullCorpus

\* One generator, its documents loaded or not, and its generators called in
\* any order.
Spec == Init /\ [][Next]_vars

----------------------------------------------------------------------------
(* Two generators given the same calls. *)

\* A generator as one value: the fields of self and what its last call
\* returned and raised.
Generator(md, tx, vo, parts, seen, r, exc, cl, st) ==
    [metadata |-> md, taxonomy |-> tx, views_only |-> vo, corpus_parts |-> parts,
     seen_entities |-> seen, ret |-> r, raised |-> exc, classified |-> cl,
     stats |-> st]

\* This generator.
This ==
    Generator(metadata, taxonomy, views_only, corpus_parts, seen_entities,
              ret, raised, classified, stats)

\* The documents a generator reads, were a views-only document that loaded
\* to stand in for the metadata.
documents_read_with_views_only(g) ==
    [metadata |-> IF g.views_only = EmptyDict THEN g.metadata ELSE g.views_only,
     taxonomy |-> g.taxonomy]

\* The documents the methods of a generator read: self.metadata and
\* self.taxonomy; no method reads self.views_only.
documents_read(g) == [metadata |-> g.metadata, taxonomy |-> g.taxonomy]

\* A Field Describer call that also appends its paragraph to corpus_parts.
describe_field_appending(g, c) ==
    LET paragraph == IF c.op = "generate_measure_description"
                     THEN generate_measure_description(c.args[1], c.args[2])
                     ELSE generate_dimension_description(c.args[1], c.args[2])
    IN  [g EXCEPT !.ret = paragraph, !.raised = "none",
                  !.corpus_parts = Append(@, paragraph)]

\* The generator after generate_measure_description or
\* generate_dimension_description.
describe_field(g, c) ==
    [g EXCEPT !.ret = IF c.op = "generate_measure_description"
                      THEN generate_measure_description(c.args[1], c.args[2])
                      ELSE generate_dimension_description(c.args[1], c.args[2]),
              !.raised = "none"]

\* A generate_full_corpus that puts a block counting the parts in front of
\* corpus_parts.
orchestrate_prepending(g) ==
    [g EXCEPT !.corpus_parts = <<IntStr(Len(@))>> \o @,
              !.ret = full_corpus_of(g.corpus_parts),
              !.raised = "none"]

\* The generator after generate_full_corpus: what save_corpus starts with.
orchestrate(g) ==
    LET cubes_list == Get(documents_read(g).metadata, "cubes", << >>)
        full_corpus == full_corpus_of(g.corpus_parts)
    IN  [g EXCEPT !.classified = [catalog_views |-> catalog_views_of(cubes_list),
                                  semantic_views |-> semantic_views_indices(cubes_list),
                                  data_cubes |-> data_cubes_of(cubes_list)],
                  !.stats = calculate_statistics(Len(g.corpus_parts), full_corpus),
                  !.ret = full_corpus,
                  !.raised = "none"]

\* The generator g after the call c.
perform(g, c) ==
    CASE c.op = "generate_catalog_description" ->
            [g EXCEPT !.ret = generate_catalog_description(c.args[1]), !.raised = "none"]
      [] c.op = "generate_cube_description" ->
            [g EXCEPT !.ret = generate_cube_description(c.args[1]), !.raised = "none"]
      [] c.op = "generate_view_description" ->
            LET result == generate_view_description(c.args[1], documents_read(g).taxonomy,
                                                    g.seen_entities)
            IN  [g EXCEPT !.ret = result.ret, !.seen_entities = result.seen,
                          !.raised = "none"]
      [] c.op \in {"generate_measure_description", "generate_dimension_description"} ->
            describe_field(g, c)
      [] c.op = "generate_hierarchy_description" ->
            LET result == generate_hierarchy_description(documents_read(g).taxonomy)
            IN  [g EXCEPT !.ret = result.ret, !.raised = result.raised]
      [] c.op = "generate_relationship_sentences" ->
            [g EXCEPT !.ret = generate_relationship_sentences(documents_read(g).metadata),
                      !.raised = "none"]
      [] c.op = "generate_query_patterns" ->
            [g EXCEPT !.ret = generate_query_patterns(documents_read(g).metadata),
                      !.raised = "none"]
      [] c.op = "generate_full_corpus" -> orchestrate(g)
      [] c.op = "save_corpus" ->
            [orchestrate(g) EXCEPT !.ret = << >>,
                                   !.raised = IF c.args[1].mkdir THEN "none" ELSE "OSError"]

\* Both generators perform the call c; files are those of this generator
\* after it (the second generator writes its own).
BothPerform(c, files) ==
    \E mine \in {perform(This, c)} :
        /\ call' = c
        /\ repeated' = (call = c /\ ret # << >>)
        /\ ret' = mine.ret
        /\ raised' = mine.raised
        /\ seen_entities' = mine.seen_entities
        /\ corpus_parts' = mine.corpus_parts
        /\ classified' = mine.classified
        /\ stats' = mine.stats
        /\ fs' = files
        /\ other' = perform(other, c)
        /\ Unchanged_documents

\* Arguments of the calls both generators are given.
PairedCatalogs == {EmptyDict, [name |-> SemanticCatalog]}

PairedCubes == {EmptyDict, MetaSmall.cubes[2]}

PairedViews == {EmptyDict, [title |-> <<"Untitled">>], MetaSmall.cubes[1]}

BothCatalogDescription ==
    \E catalog \in PairedCatalogs :
        BothPerform([op |-> "generate_catalog_description", args |-> <<catalog>>], fs)

BothCubeDescription ==
    \E cube \in PairedCubes :
        BothPerform([op |-> "generate_cube_description", args |-> <<cube>>], fs)

BothViewDescription ==
    \E view \in PairedViews :
        BothPerform([op |-> "generate_view_description", args |-> <<view>>], fs)

BothMeasureDescription ==
    \E m \in {MeasureAt(1), MeasureAt(2)} :
        BothPerform([op |-> "generate_measure_description", args |-> <<CubeC1, m>>], fs)

BothDimensionDescription ==
    \E d \in {DimensionAt(1), DimensionAt(2)} :
        BothPerform([op |-> "generate_dimension_description", args |-> <<CubeC1, d>>], fs)

BothHierarchyDescription ==
    BothPerform([op |-> "generate_hierarchy_description", args |-> << >>], fs)

BothRelationshipSentences ==
    BothPerform([op |-> "generate_relationship_sentences", args |-> << >>], fs)

BothQueryPatterns ==
    BothPerform([op |-> "generate_query_patterns", args |-> << >>], fs)

BothFullCorpus ==
    \E outcome \in IOOutcomes :
        BothPerform([op |-> "generate_full_corpus", args |-> << >>],
                    save_statistics(fs, orchestrate(This).stats, outcome))

BothSaveCorpus ==
    \E io \in IOAnswers(fs) :
        BothPerform([op |-> "save_corpus", args |-> <<io>>],
                    save_corpus_files(fs, orchestrate(This).stats,
                                      full_corpus_of(corpus_parts), io).fs)

\* What self.views_only can be: the empty dict of a missing or malformed
\* file, or a document of views.
ViewsOnlyDocs ==
    {EmptyDict,
     [cubes |-> << [name |-> ViewV2, type |-> Chars("view"),
                    description |-> CombinedViewOf(<<"C", "s">>, <<"O">>, <<"O">>),
                    measures |-> MeasuresOf(1)] >>]}

\* The metadata and taxonomy documents of the two generators: both loaded,
\* or both the empty dict of a failed load.
PairedDocuments ==
    {[metadata |-> MetaSmall, taxonomy |-> TaxFull],
     [metadata |-> EmptyDict, taxonomy |-> EmptyDict]}

\* Two generators constructed from the same metadata and taxonomy documents
\* and from different views-only documents.
InitPair ==
    \E docs \in PairedDocuments, vo \in ViewsOnlyDocs, vo2 \in ViewsOnlyDocs :
        LET md == docs.metadata
            tx == docs.taxonomy
        IN
        /\ vo2 # vo
        /\ ConstructedBeside(md, tx, vo, TRUE,
            Generator(md, tx, vo2, << >>, {}, << >>, "none", EmptyDict, NoStats))

NextPair ==
    \/ BothCatalogDescription
    \/ BothCubeDescription
    \/ BothViewDescription
    \/ BothMeasureDescription
    \/ BothDimensionDescription
    \/ BothHierarchyDescription
    \/ BothRelationshipSentences
    \/ BothQueryPatterns
    \/ BothFullCorpus
    \/ BothSaveCorpus

\* Every operation of the generator, performed by two generators that
\* differ in their views-only document.
SpecPair == InitPair /\ [][NextPair]_vars

----------------------------------------------------------------------------
(* The InstructionGenerator as a state machine: its self.metadata is held in
   metadata, what generate_instructions returns in ret. *)

GenerateInstructions ==
    /\ Called("generate_instructions", << >>)
    /\ ret' = generate_instructions(metadata)
    /\ raised' = "none"
    /\ Unchanged_documents
    /\ UNCHANGED <<corpus_parts, seen_entities, classified, stats, fs>>

\* After InstructionGenerator.__init__: the metadata document as loaded.
InitInstructions ==
    \E md \in QueryDocs : Constructed(md, EmptyDict, EmptyDict, TRUE)

NextInstructions == GenerateInstructions

SpecInstructions == InitInstructions /\ [][NextInstructions]_vars

----------------------------------------------------------------------------
(* Claims about the Entity Describer, under SpecEntity. *)

\* The view record of the last generate_view_description call.
CalledView == call.args[1]

\* C3: each view record yields non-empty content at most once: a
\* generate_view_description call that repeats a call for the same view record
\* which returned its block returns the empty string.
C3_ViewRenderedAtMostOnce ==
    (call.op = "generate_view_description" /\ repeated) => ret = << >>

\* The <<business unit, subdivision>> positions whose views list names name.
ListingSubdivisions(tax, name) ==
    LET units == business_units_items(tax)
    IN  {p \in (1..Len(units)) \X (1..MaxFields + 1) :
            LET subdivisions == Get(units[p[1]][2], "subdivisions", << >>)
            IN  /\ p[2] <= Len(subdivisions)
                /\ \E v \in {Get(subdivisions[p[2]][2], "views", << >>)[i] :
                        i \in 1..Len(Get(subdivisions[p[2]][2], "views", << >>))} :
                        GetOrNone(v, "name") = name}

BusinessContextOpening == "**Business Context**: Belongs to the '"

\* C4: a view whose name is listed by two or more subdivisions gets exactly
\* one Business Context sentence in its block.
C4_OneBusinessContext ==
    (/\ call.op = "generate_view_description"
     /\ ret # << >>
     /\ taxonomy # EmptyDict
     /\ Cardinality(ListingSubdivisions(taxonomy, view_seen_name(CalledView))) >= 2)
    => Count(ret, BusinessContextOpening) = 1

\* The pieces of text found off pieces before each occurrence of marker, in
\* order of occurrence.
PiecesBefore(text, marker, off) ==
    LET at == {i \in 1..Len(text) : text[i] = marker}
        nth[k \in 1..Cardinality(at)] ==
            CHOOSE i \in at : Cardinality({j \in at : j < i}) = k - 1
    IN  [k \in 1..Cardinality(at) |-> text[nth[k] - off]]

\* The last piece of each measure's name, in list order.
MeasureNameEnds(measures, default) ==
    [k \in 1..Len(measures) |->
        LET name == Get(measures[k], "name", default) IN name[Len(name)]]

\* The pieces of text that belong to marks, in order.
Marks(text, marks) ==
    LET at == {i \in 1..Len(text) : text[i] \in marks}
        nth[k \in 1..Cardinality(at)] ==
            CHOOSE i \in at : Cardinality({j \in at : j < i}) = k - 1
    IN  [k \in 1..Cardinality(at) |-> text[nth[k]]]

CubeBriefHeading == "## Measures (Brief Summary)"
CubeBriefBullet == " ** measure with following description : "
CubeDetailHeading == "## Detailed Measure Descriptions"
ViewBriefHeading == "### Key Metrics (Measures) in "
ViewBriefBullet == "): A "
ViewDetailHeading == "#### Detailed Fields for "
MeasureParagraphOpening == " is a measure in the "

\* A text with one brief heading, then n bullets, then the detail heading,
\* then n measure paragraphs, the bullets and the paragraphs naming the
\* measures in list order.
BriefThenParagraphs(text, measures, heading, bullet, bulletOff, detail, default) ==
    /\ Marks(text, {heading, bullet, detail, MeasureParagraphOpening})
         = <<heading>> \o [k \in 1..Len(measures) |-> bullet]
           \o <<detail>> \o [k \in 1..Len(measures) |-> MeasureParagraphOpening]
    /\ PiecesBefore(text, bullet, bulletOff) = MeasureNameEnds(measures, default)
    /\ PiecesBefore(text, MeasureParagraphOpening, 1) = MeasureNameEnds(measures, default)

\* C8 as stated: for an entity with at least one measure, the output of
\* generate_cube_description or generate_view_description holds exactly one
\* "Measures (Brief Summary)" section with one bullet per measure, followed by
\* one full measure paragraph per measure, in source order.
C8_BriefSummarySection ==
    (/\ call.op \in {"generate_cube_description", "generate_view_description"}
     /\ Get(call.args[1], "measures", << >>) # << >>)
    => BriefThenParagraphs(ret, Get(call.args[1], "measures", << >>),
                           CubeBriefHeading, CubeBriefBullet, 3,
                           CubeDetailHeading, <<"unknown">>)

\* C8 as amended: for a cube with at least one measure the output holds
\* exactly one "Measures (Brief Summary)" heading, one bullet per measure,
\* then one full measure paragraph per measure, in source order; for a view
\* with at least one measure the brief section is headed "Key Metrics
\* (Measures) in <view>" instead, and this holds of the calls that render the
\* view, the others returning the empty string.
C8_BriefSectionPerKind ==
    /\ (/\ call.op = "generate_cube_description"
        /\ Get(call.args[1], "measures", << >>) # << >>)
       => BriefThenParagraphs(ret, Get(call.args[1], "measures", << >>),
                              CubeBriefHeading, CubeBriefBullet, 3,
                              CubeDetailHeading, <<"unknown">>)
    /\ (/\ call.op = "generate_view_description"
        /\ Get(call.args[1], "measures", << >>) # << >>)
       => \/ ret = << >>
          \/ /\ Count(ret, CubeBriefHeading) = 0
             /\ BriefThenParagraphs(ret, Get(call.args[1], "measures", << >>),
                                    ViewBriefHeading, ViewBriefBullet, 2,
                                    ViewDetailHeading, <<"unknown">>)

\* A view with MaxFields measures has been rendered in full.
C8_Witness ==
    /\ call.op = "generate_view_description"
    /\ Len(Get(call.args[1], "measures", << >>)) = MaxFields
    /\ Count(ret, MeasureParagraphOpening) = MaxFields

----------------------------------------------------------------------------
(* Claims about the Field Describer, under SpecField. *)

\* C7 as stated: every paragraph of the Field Describer has the same line
\* count: any two measure paragraphs rendered one after the other have the
\* same number of lines, and so have any two dimension paragraphs, whichever
\* optional attributes their records carry.
C7_SameLineCount ==
    [][(call.op = call'.op /\ call.op \in {"generate_measure_description",
                                           "generate_dimension_description"})
        => LineBreaks(ret') = LineBreaks(ret)]_vars

\* C7 as amended: a measure paragraph has 7 lines, and one more when
\* shortTitle is a non-empty string; a dimension paragraph has 8 lines, one
\* more when aliasMember is a non-empty string and one more when meta has
\* the key subEntity.  Whether description is present changes no line count.
C7_LineCountByAttributes ==
    /\ call.op = "generate_measure_description" =>
            LineBreaks(ret) =
                7 + (IF Get(call.args[2], "shortTitle", << >>) # << >> THEN 1 ELSE 0)
    /\ call.op = "generate_dimension_description" =>
            LineBreaks(ret) =
                8 + (IF Get(call.args[2], "aliasMember", << >>) # << >> THEN 1 ELSE 0)
                  + (IF HasKey(Get(call.args[2], "meta", EmptyDict), "subEntity")
                     THEN 1 ELSE 0)

\* A dimension without description, with an alias member and a sub-entity,
\* has been rendered in 10 lines.
C7_Witness ==
    /\ call.op = "generate_dimension_description"
    /\ ~HasKey(call.args[2], "description")
    /\ HasKey(call.args[2], "aliasMember") /\ call.args[2]["aliasMember"] # << >>
    /\ HasKey(Get(call.args[2], "meta", EmptyDict), "subEntity")
    /\ LineBreaks(ret) = 10

----------------------------------------------------------------------------
(* Claims about the classification, under SpecClassify. *)

\* The positions a partition holds.
Members(partition) == {partition[k] : k \in 1..Len(partition)}

\* C1: the classification of generate_full_corpus is disjoint: no entity of
\* cubes is placed in more than one of catalog_views, semantic_views and
\* data_cubes, whatever name and type it carries.
C1_DisjointPartitions ==
    call.op = "generate_full_corpus" =>
        /\ Members(classified.catalog_views) \cap Members(classified.semantic_views) = {}
        /\ Members(classified.catalog_views) \cap Members(classified.data_cubes) = {}
        /\ Members(classified.semantic_views) \cap Members(classified.data_cubes) = {}

\* C2: the classification of generate_full_corpus is exhaustive: every entity
\* of cubes is in at least one partition, and the three lengths add up to
\* len(cubes_list).
C2_ExhaustivePartitions ==
    call.op = "generate_full_corpus" =>
        LET cubes_list == Get(metadata, "cubes", << >>)
        IN  /\ \A i \in 1..Len(cubes_list) :
                    i \in Members(classified.catalog_views)
                          \cup Members(classified.semantic_views)
                          \cup Members(classified.data_cubes)
            /\ Len(classified.catalog_views) + Len(classified.semantic_views)
                    + Len(classified.data_cubes) = Len(cubes_list)

----------------------------------------------------------------------------
(* Claims about the generators on documents that failed to load, under Spec. *)

\* C5: with the metadata or the taxonomy document replaced by the empty
\* document, every generator completes without raising an exception.
C5_GeneratorsNeverRaise ==
    (call.op # "none" /\ (metadata = EmptyDict \/ taxonomy = EmptyDict))
        => raised = "none"

----------------------------------------------------------------------------
(* Claims about the statistics, under SpecStatistics. *)

\* C6: for every word count w of a corpus, estimated_tokens is round(w * 1.3),
\* the nearest integer to 1.3 times the word count (13 w / 10 is the nearest
\* integer n when 2 |13 w - 10 n| <= 10, the even one at equal distance).
C6_EstimatedTokensRounded ==
    call.op = "_calculate_statistics" =>
        LET n == stats.estimated_tokens
            w == WordCount(call.args[1])
        IN  /\ 13 * w - 5 <= 10 * n
            /\ 10 * n <= 13 * w + 5
            /\ (10 * n = 13 * w + 5 \/ 10 * n = 13 * w - 5) => n % 2 = 0

\* C6 as amended: estimated_tokens is 1.3 times the word count with the
\* fraction dropped: the largest integer n with 10 n <= 13 w.
C6_EstimatedTokensTruncated ==
    call.op = "_calculate_statistics" =>
        LET n == stats.estimated_tokens
            w == WordCount(call.args[1])
        IN  /\ stats.words = w
            /\ 10 * n <= 13 * w
            /\ 13 * w < 10 * (n + 1)

\* The statistics of a corpus of two words have been computed: 2.6 became 2.
C6_Witness ==
    /\ call.op = "_calculate_statistics"
    /\ WordCount(call.args[1]) = 2
    /\ stats.estimated_tokens = 2

----------------------------------------------------------------------------
(* Claims about the Relationship Extractor, under SpecRelationship. *)

\* The description has the phrasing "A combined view of <list> to provide":
\* the trigger phrase, and " to provide" somewhere after it.
MatchesPhrasing(description) ==
    LET trigger == Chars("A combined view of")
        at == Find(description, trigger)
    IN  /\ at > 0
        /\ Contains(SubSeq(description, at + Len(trigger), Len(description)),
                    Chars(" to provide"))

\* How the relationship sentence of the view of that name opens.
SentenceOpening(name) ==
    <<"The **">> \o name
    \o <<"** view is constructed by combining data from the following cubes: **">>

\* C9: generate_relationship_sentences emits no relationship sentence for a
\* view whose description does not have the phrasing "A combined view of
\* <list> to provide", whether it lacks the trigger phrase or has it with no
\* " to provide" after it.
C9_NoSentenceWithoutPhrasing ==
    call.op = "generate_relationship_sentences" =>
        \A i \in 1..Len(metadata.cubes) :
            LET view == metadata.cubes[i]
            IN  ~MatchesPhrasing(Get(view, "description", << >>))
                    => ~Contains(ret, SentenceOpening(view.name))

\* C10: for a view described as "A combined view of c1, c2, and c3 to
\* provide ...", generate_relationship_sentences extracts exactly the cube
\* list [c1, c2, c3], every name unchanged, and writes the sentence naming them.
C10_ExtractsCubeList ==
    call.op = "generate_relationship_sentences" =>
        \A i \in 1..Len(metadata.cubes) :
            \A c1 \in ListedCubeNames, c2 \in ListedCubeNames, c3 \in ListedCubeNames :
                LET view == metadata.cubes[i]
                IN  (/\ GetOrNone(view, "type") = Chars("view")
                     /\ view.name # SemanticCatalog
                     /\ Get(view, "description", << >>) = CombinedViewOf(c1, c2, c3))
                    => Contains(ret, SentenceOpening(view.name) \o c1 \o <<",", " ">>
                                     \o c2 \o <<",", " ">> \o c3 \o <<"**.">> \o NL)

----------------------------------------------------------------------------
(* Claims about the Query-Pattern Synthesizer, under SpecQuery. *)

PurposeQuestion == "**Question**: What is the purpose of the '"

MetricsQuestion == "**Question**: What metrics are available in '"

MeasuresQuestion == "**Question:** What measures are in "

DimensionTypeQuestion == "**Question**: What is the data type of '"

MeasureLocationQuestion == "**Question**: Where can I find the '"

PrimaryKeyQuestion == "**Question:** What is the primary key of "

\* How a Question/Answer pair can open.
QuestionOpenings ==
    {PurposeQuestion, MetricsQuestion, MeasuresQuestion, DimensionTypeQuestion,
     MeasureLocationQuestion, PrimaryKeyQuestion}

\* The Question/Answer pairs of a text, in order: each runs from its opening
\* to the next opening or the end.
PairsIn(text) ==
    LET at == Ascending({p \in 1..Len(text) : text[p] \in QuestionOpenings})
    IN  [k \in 1..Len(at) |->
            SubSeq(text, at[k], IF k < Len(at) THEN at[k + 1] - 1 ELSE Len(text))]

\* Those of the pairs that are about the i-th entity of cubes: they name it
\* by name or title.
PairsAbout(pairs, i) ==
    {k \in 1..Len(pairs) :
        \E q \in 1..Len(pairs[k]) : <<pairs[k][q]>> \in {QueryName(i), QueryTitle(i)}}

\* The entities generate_query_patterns processes.
Processed ==
    LET n == Len(Get(metadata, "cubes", << >>))
    IN  1..(IF n < QueryPatternPrefix THEN n ELSE QueryPatternPrefix)

\* C11: for every entity it processes, generate_query_patterns emits at most
\* five Question/Answer pairs, whatever fields the entity has.
C11_AtMostFivePairs ==
    call.op = "generate_query_patterns" =>
        LET pairs == PairsIn(ret)
        IN  \A i \in Processed : Cardinality(PairsAbout(pairs, i)) <= 5

\* C11 as amended: at most six pairs for every entity processed (purpose,
\* metrics, measures, dimension type, measure location, primary key), and
\* none for an entity past the first QueryPatternPrefix.
C11_AtMostSixPairs ==
    call.op = "generate_query_patterns" =>
        LET pairs == PairsIn(ret)
        IN  \A i \in 1..Len(Get(metadata, "cubes", << >>)) :
                /\ Cardinality(PairsAbout(pairs, i)) <= 6
                /\ i \notin Processed => PairsAbout(pairs, i) = {}

\* An entity with a description, measures and a primary-key dimension has its
\* six pairs.
C11_Witness ==
    /\ call.op = "generate_query_patterns"
    /\ \E i \in Processed : Cardinality(PairsAbout(PairsIn(ret), i)) = 6

\* A pair about entity i opens with opening.
HasPair(pairs, i, opening) == \E k \in PairsAbout(pairs, i) : pairs[k][1] = opening

\* The name of the first dimension of dimensions with primaryKey true.
FirstKeyName(dimensions) ==
    LET keys == {k \in 1..Len(dimensions) : Get(dimensions[k], "primaryKey", FALSE)}
        first == CHOOSE k \in keys : \A j \in keys : k <= j
    IN  dimensions[first].name

\* C12: each pair depends only on its own producing field: the purpose pair
\* is emitted iff description is non-empty, the metric and measure-location
\* pairs iff measures is non-empty, the dimension-type pair iff dimensions is
\* non-empty, the primary-key pair iff some dimension has primaryKey set, and
\* then it names the first such dimension.
C12_PairsIndependent ==
    call.op = "generate_query_patterns" =>
        LET pairs == PairsIn(ret)
        IN  \A i \in Processed :
                LET cube == metadata.cubes[i]
                    description == Get(cube, "description", << >>)
                    measures == Get(cube, "measures", << >>)
                    dimensions == Get(cube, "dimensions", << >>)
                    keyed == \E k \in 1..Len(dimensions) :
                                Get(dimensions[k], "primaryKey", FALSE)
                IN  /\ HasPair(pairs, i, PurposeQuestion)
                            <=> (description # << >> /\ description # NoneVal)
                    /\ HasPair(pairs, i, MetricsQuestion) <=> measures # << >>
                    /\ HasPair(pairs, i, MeasureLocationQuestion) <=> measures # << >>
                    /\ HasPair(pairs, i, DimensionTypeQuestion) <=> dimensions # << >>
                    /\ HasPair(pairs, i, PrimaryKeyQuestion) <=> keyed
                    /\ keyed =>
                          \E k \in PairsAbout(pairs, i) :
                              /\ pairs[k][1] = PrimaryKeyQuestion
                              /\ \E q \in 1..(Len(pairs[k]) - 1) :
                                    /\ pairs[k][q] = "**Answer:** The primary key is "
                                    /\ <<pairs[k][q + 1]>> = FirstKeyName(dimensions)

\* An entity with no description and no measures whose two dimensions are
\* both keys has its dimension-type pair and its primary-key pair.
C12_Witness ==
    /\ call.op = "generate_query_patterns"
    /\ \E i \in Processed :
          /\ ~HasKey(metadata.cubes[i], "description")
          /\ ~HasKey(metadata.cubes[i], "measures")
          /\ Get(metadata.cubes[i], "dimensions", << >>) = DimensionsBothKeys
          /\ HasPair(PairsIn(ret), i, DimensionTypeQuestion)
          /\ HasPair(PairsIn(ret), i, PrimaryKeyQuestion)
          /\ ~HasPair(PairsIn(ret), i, PurposeQuestion)

----------------------------------------------------------------------------
(* Claims about the persisted outputs, under SpecSave. *)

\* C13: a failure while persisting an output (creating the output directory,
\* opening or writing the statistics file or the corpus file) never raises to
\* the caller of save_corpus.
C13_SaveNeverRaises ==
    call.op = "save_corpus" => raised = "none"

\* C14: the two artifacts are persisted independently with no rollback: when
\* the statistics write fails (and the directory can be created) the corpus
\* write is still attempted, and succeeds if the file system lets it; when the
\* corpus write fails, a statistics file written in the same run is as written.
C14_ArtifactsIndependent ==
    [][call'.op = "save_corpus" =>
        LET io == call'.args[1]
        IN  /\ (io.stats # "written" /\ io.mkdir /\ io.corpus = "written")
                    => /\ fs'.corpus_file.exists
                       /\ fs'.corpus_file.content = Join(Separator, corpus_parts')
            /\ (fs.dir /\ io.stats = "written" /\ io.corpus # "written")
                    => /\ fs'.stats_file.exists
                       /\ fs'.stats_file.content = stats']_vars

\* save_corpus ran in a directory that did not exist: the statistics were
\* not saved, the corpus was.
C14_Witness ==
    /\ call.op = "save_corpus"
    /\ call.args[1].stats = "open fails"
    /\ call.args[1].corpus = "written"
    /\ ~fs.stats_file.exists
    /\ fs.corpus_file.exists

----------------------------------------------------------------------------
(* Claims about the orchestrator, under SpecClassify. *)

\* C15: given a metadata document with zero entities, generate_full_corpus
\* returns the empty string and the statistics are total_parts = 0,
\* characters = 0, words = 0, estimated_tokens = 0.
C15_ZeroEntities ==
    (call.op = "generate_full_corpus" /\ Get(metadata, "cubes", << >>) = << >>)
        => /\ ret = << >>
           /\ stats = [total_parts |-> 0, characters |-> 0, words |-> 0,
                       estimated_tokens |-> 0]

\* generate_full_corpus has run on a document whose cubes list is empty.
C15_Witness ==
    /\ call.op = "generate_full_corpus"
    /\ HasKey(metadata, "cubes")
    /\ metadata.cubes = << >>
    /\ stats # NoStats
    /\ stats.words = 0

----------------------------------------------------------------------------
(* More claims about the Field Describer, under SpecField. *)

\* C19: for every measure or dimension record with no description key, the
\* rendered paragraph holds the default "No description provided." in its
\* description line.
C19_DefaultDescription ==
    (/\ call.op \in {"generate_measure_description", "generate_dimension_description"}
     /\ ~HasKey(call.args[2], "description"))
        => \E p \in 1..(Len(ret) - 3) :
              /\ ret[p] = "\n"
              /\ ret[p + 1] = "Description: "
              /\ ret[p + 2] = "No description provided."
              /\ ret[p + 3] = "."

\* A measure without description has been rendered with the default.
C19_Witness ==
    /\ call.op = "generate_measure_description"
    /\ ~HasKey(call.args[2], "description")
    /\ Contains(ret, <<"Description: ", "No description provided.", ".", "\n">>)

----------------------------------------------------------------------------
(* More claims about the Entity Describer, under SpecEntity. *)

\* C17: generate_cube_description deduplicates nothing: every call returns a
\* non-empty block, a call that repeats the one before returns the same block,
\* and seen_entities and corpus_parts are left as they were.
C17_CubeNeverSkipped ==
    [][call'.op = "generate_cube_description" =>
        /\ ret' # << >>
        /\ ret'[1] = "### Cube: "
        /\ call' = call => ret' = ret
        /\ seen_entities' = seen_entities
        /\ corpus_parts' = corpus_parts]_vars

\* A cube whose name is already in seen_entities has been rendered twice in
\* a row.
C17_Witness ==
    /\ call.op = "generate_cube_description"
    /\ repeated
    /\ ret # << >>
    /\ Get(call.args[1], "name", << >>) \in seen_entities

----------------------------------------------------------------------------
(* Claims about the generator under every operation, under SpecPair. *)

\* C16: seen_entities is empty after construction and only grows: no
\* operation removes a name, and a name is added only by a
\* generate_view_description call that returns non-empty content for it.
C16_SeenEntitiesOnlyGrows ==
    /\ seen_entities = {}
    /\ [][/\ seen_entities \subseteq seen_entities'
          /\ seen_entities' # seen_entities =>
                /\ call'.op = "generate_view_description"
                /\ seen_entities' \ seen_entities
                        = {Get(call'.args[1], "name", <<"Unknown">>)}
                /\ \E name \in seen_entities' \ seen_entities :
                        Contains(ret', <<"**Technical Name**: ">> \o BT \o name \o BT)]_vars

\* A view has been rendered and named in seen_entities, and the name is
\* still there after a later call of another method.
C16_Witness ==
    /\ seen_entities # {}
    /\ call.op = "save_corpus"

\* C18: the Field Describer is a pure function of the owning-entity name and
\* the field record: in any generator state it returns the paragraph of that
\* name and record, the same as on the call before if that was the same call,
\* and it modifies neither seen_entities nor corpus_parts.
C18_FieldDescriberPure ==
    [][call'.op \in {"generate_measure_description", "generate_dimension_description"} =>
        /\ ret' = IF call'.op = "generate_measure_description"
                  THEN Join(NL, measure_paragraph(call'.args[1], call'.args[2])) \o NL
                  ELSE Join(NL, dimension_paragraph(call'.args[1], call'.args[2])) \o NL
        /\ call' = call => ret' = ret
        /\ seen_entities' = seen_entities
        /\ corpus_parts' = corpus_parts
        /\ stats' = stats]_vars

\* A measure has been rendered by a generator that had rendered views.
C18_Witness ==
    /\ call.op = "generate_measure_description"
    /\ seen_entities # {}
    /\ ret # << >>

\* C20: the views-only document does not influence the run: two generators
\* constructed with the same metadata and taxonomy documents and different
\* views-only documents have, after the same operations, the same returned
\* text, the same statistics and the same seen_entities.
C20_ViewsOnlyIgnored ==
    (/\ other.metadata = metadata
     /\ other.taxonomy = taxonomy
     /\ other.views_only # views_only)
        => /\ other.ret = ret
           /\ other.raised = raised
           /\ other.stats = stats
           /\ other.seen_entities = seen_entities
           /\ other.corpus_parts = corpus_parts

\* Two generators that differ in views_only, one of them with the empty
\* dict, have written the same relationship sentence from their metadata.
C20_Witness ==
    /\ other # NoGenerator
    /\ other.views_only # views_only
    /\ call.op = "generate_relationship_sentences"
    /\ Contains(ret, <<"** view is constructed by combining data from the following cubes: **">>)
    /\ other.ret = ret

----------------------------------------------------------------------------
(* Claims about corpus_parts, under SpecPair. *)

\* C21: corpus_parts is append-only: across every step of generate_full_corpus
\* and save_corpus, and of every other operation, the block sequence after
\* the step has the block sequence before it as a prefix.
C21_CorpusPartsAppendOnly ==
    [][/\ Len(corpus_parts) <= Len(corpus_parts')
       /\ SubSeq(corpus_parts', 1, Len(corpus_parts)) = corpus_parts]_vars

\* generate_full_corpus has run, after a view was rendered, and corpus_parts
\* holds what it held.
C21_Witness ==
    /\ call.op = "generate_full_corpus"
    /\ seen_entities # {}
    /\ stats # NoStats
    /\ corpus_parts = << >>

----------------------------------------------------------------------------
(* More claims about the persisted outputs, under SpecSave. *)

\* C22: after save_corpus has run with no I/O fault (the directory could be
\* created and the corpus written), starting where training_data does not
\* exist, both the corpus file and the statistics file exist.
C22_BothArtifactsExist ==
    [][(/\ call'.op = "save_corpus"
        /\ ~fs.dir
        /\ call'.args[1].mkdir
        /\ call'.args[1].corpus = "written")
            => /\ fs'.corpus_file.exists
               /\ fs'.stats_file.exists]_vars

----------------------------------------------------------------------------
(* Claims about the InstructionGenerator, under SpecInstructions. *)

\* Whether the item asks for the measures or for the primary key, and of
\* which cube: read off its user message.
AskedOf(item) ==
    <<IF item.messages[2].content[1] = "What measures are in "
      THEN "measures" ELSE "key",
      item.messages[2].content[2]>>

\* What is to be asked of a cube: its measures if it has any, then its
\* primary key if a dimension is flagged.
ToAsk(cube) ==
    LET name == cube.name[1]
        dimensions == Get(cube, "dimensions", << >>)
    IN  (IF Get(cube, "measures", << >>) # << >> THEN << <<"measures", name>> >> ELSE << >>)
        \o (IF \E k \in 1..Len(dimensions) : Get(dimensions[k], "primaryKey", FALSE)
            THEN << <<"key", name>> >> ELSE << >>)

RECURSIVE ToAskAll(_)
ToAskAll(cubes) ==
    IF cubes = << >> THEN << >> ELSE ToAsk(Head(cubes)) \o ToAskAll(Tail(cubes))

\* C23: generate_instructions returns a list in which every item has exactly
\* three messages with roles system, user, assistant in that order; each cube
\* contributes one item iff it has measures and one iff it has a primaryKey
\* dimension, the measures item first; items are in cube document order; the
\* primary-key item names the first dimension flagged primaryKey.
C23_InstructionShape ==
    call.op = "generate_instructions" =>
        LET cubes == Get(metadata, "cubes", << >>)
        IN  /\ \A k \in 1..Len(ret) :
                    /\ DOMAIN ret[k] = {"messages"}
                    /\ Len(ret[k].messages) = 3
                    /\ ret[k].messages[1].role = "system"
                    /\ ret[k].messages[2].role = "user"
                    /\ ret[k].messages[3].role = "assistant"
            /\ [k \in 1..Len(ret) |-> AskedOf(ret[k])] = ToAskAll(cubes)
            /\ \A k \in 1..Len(ret) :
                    AskedOf(ret[k])[1] = "key" =>
                        \E i \in 1..Len(cubes) :
                            /\ cubes[i].name = <<AskedOf(ret[k])[2]>>
                            /\ SubSeq(ret[k].messages[3].content, 1, 4)
                                    = <<"The primary key of ", cubes[i].name[1], " is ">>
                                      \o FirstKeyName(cubes[i].dimensions)

\* Two cubes, the first with measures and two flagged dimensions, have
\* produced three items or more.
C23_Witness ==
    /\ call.op = "generate_instructions"
    /\ Len(Get(metadata, "cubes", << >>)) = 2
    /\ Get(metadata.cubes[1], "dimensions", << >>) = DimensionsBothKeys
    /\ HasKey(metadata.cubes[1], "measures")
    /\ Len(ret) >= 3
    /\ AskedOf(ret[1]) = <<"measures", "E1">>
    /\ AskedOf(ret[2]) = <<"key", "E1">>

====
